---------------------------- MODULE Spec2Model ----------------------------
(***************************************************************************)
(* A model of the log-structured key-value store KvStore                   *)
(* (src/kvs/src/engines/kvs.rs) and of its record codec                    *)
(* (src/kvs/src/entry.rs).                                                 *)
(*                                                                         *)
(* Strings.  A string is modelled as a run [c |-> code, n |-> length]: the *)
(* byte `code` repeated `length` times.  The empty string is the run of    *)
(* length 0.  This keeps the byte lengths the engine computes with (record *)
(* lengths, file offsets, the uncompacted counter) exact while allowing a  *)
(* value as long as the compaction threshold.                              *)
(*                                                                         *)
(* Files.  A generation file is a sequence of chunks.  A chunk is either   *)
(* the encoding of one record (kind "rec": crc, key_size, value_size and   *)
(* the key and value bytes), a run of bytes that is not a record           *)
(* boundary-aligned copy (kind "raw"), or the first `size` bytes of the    *)
(* encoding of a record, fewer than the record has (kind "cut").  Offsets  *)
(* are byte offsets, computed from the chunk sizes.                        *)
(*                                                                         *)
(* CRC.  crc32 is modelled as an ideal checksum: the checksum of a byte    *)
(* string is the byte string itself, so two checksums agree exactly when   *)
(* the bytes they cover agree.  Keys and values are shorter than 2^32      *)
(* bytes, so the casts `len() as u32` of Entry::new keep the length.       *)
(***************************************************************************)
EXTENDS Integers, Sequences, FiniteSets, TLC

\* ------------------------------------------------------------------ bounds

\* The largest number of chunks the generation files may hold together.
MaxRecs == 3

\* The largest generation number the model creates.
MaxGen == 5

\* The largest number of times the store is dropped and opened again.
MaxOpens == 1

\* The largest number of records of the directory altered at one time.
MaxFaults == 1

\* The largest number of connections clients open to the server.
MaxConns == 2

\* The largest number of bytes of the keys and values given to the codec.
MaxStrLen == 2

\* The largest number of lines of an input given to Request::from_reader.
MaxLines == 4

\* ------------------------------------------------------- program constants

COMPACTION_THRESHOLD == 1048576

PREFIX_SIZE == 12

\* ----------------------------------------------------------------- strings

Str(c, n) == [c |-> IF n = 0 THEN 0 ELSE c, n |-> n]

EmptyStr == Str(0, 0)

StrLen(s) == s.n

\* The order of String in a BTreeMap: byte-wise lexicographic.
StrLess(s, t) ==
    IF s.n = 0 THEN t.n > 0
    ELSE IF t.n = 0 THEN FALSE
    ELSE IF s.c # t.c THEN s.c < t.c
    ELSE s.n < t.n

\* Keys "a" and "bb"; values "", "x" and a value of COMPACTION_THRESHOLD bytes.
Keys == {Str(97, 1), Str(98, 2)}

Values == {EmptyStr, Str(120, 1), Str(121, COMPACTION_THRESHOLD)}

\* The keys a caller may pass: those, and the empty key.
AllKeys == Keys \cup {EmptyStr}

\* Option<T>: None is the empty sequence, Some(x) the sequence <<x>>.
None == <<>>

Some(x) == <<x>>

\* ------------------------------------------------------------ record codec

\* as_bytes: the two sizes, the key bytes, the value bytes (none for None).
AsBytes(key_size, value_size, key, value) ==
    [key_size |-> key_size, value_size |-> value_size, key |-> key,
     val |-> IF value = None THEN EmptyStr ELSE value[1]]

GenerateCrc32(key_size, value_size, key, value) ==
    AsBytes(key_size, value_size, key, value)

\* Entry::new
EntryNew(key, value) ==
    LET key_size == StrLen(key)
        value_size == IF value = None THEN 0 ELSE StrLen(value[1])
    IN [key |-> key, value |-> value,
        crc32 |-> GenerateCrc32(key_size, value_size, key, value),
        key_size |-> key_size, value_size |-> value_size]

EntrySet(key, value) == EntryNew(key, Some(value))

EntryRemove(key) == EntryNew(key, None)

\* as_durable_bytes: the crc followed by as_bytes.
AsDurableBytes(entry) ==
    LET b == AsBytes(entry.key_size, entry.value_size, entry.key, entry.value)
    IN [kind |-> "rec", crc |-> entry.crc32, key_size |-> b.key_size,
        value_size |-> b.value_size, key |-> b.key, val |-> b.val]

\* The number of bytes of a chunk.
Size(ch) ==
    IF ch.kind = "rec" THEN PREFIX_SIZE + StrLen(ch.key) + StrLen(ch.val)
    ELSE ch.size

RECURSIVE FileLen(_)
FileLen(f) == IF f = <<>> THEN 0 ELSE Size(Head(f)) + FileLen(Tail(f))

\* The byte offset at which chunk i of file f starts.
Offset(f, i) == FileLen(SubSeq(f, 1, i - 1))

\* The index of the chunk of f that starts at byte offset pos, or 0.
ChunkAt(f, pos) ==
    LET S == {i \in 1..Len(f) : Offset(f, i) = pos}
    IN IF S = {} THEN 0 ELSE CHOOSE i \in S : TRUE

Min(a, b) == IF a < b THEN a ELSE b

\* The bytes of file f from offset pos on, at most limit of them.
Avail(f, pos, limit) ==
    Min(limit, IF FileLen(f) > pos THEN FileLen(f) - pos ELSE 0)

\* from_reader on a reader positioned at pos of file f that yields at most
\* limit bytes (reader.take(limit)).  res is "Ok", "Io" (read_exact hit the
\* end), "FromUtf8" (the key or the value is not UTF-8) or "Panic" (the
\* assert_eq on the crc); n is the number of bytes read.
\* Bytes that do not start a record (an offset inside a record, a raw
\* chunk) decode to sizes and a crc that do not match: they end in "Panic".
\* Of a cut record the prefix is read when it is there, and read_exact of
\* the payload hits the end.
FromReader(f, pos, limit) ==
    LET Decode(avail, i) ==
          IF avail < PREFIX_SIZE
            THEN [res |-> "Io", n |-> avail]
          ELSE IF i # 0 /\ f[i].kind = "cut"
                  /\ avail < PREFIX_SIZE + f[i].rec.key_size
                                + f[i].rec.value_size
            THEN [res |-> "Io", n |-> avail]
          ELSE IF i = 0 \/ f[i].kind # "rec"
            THEN [res |-> "Panic", n |-> avail]
          ELSE LET r == f[i]
                   value == IF r.value_size = 0 THEN None ELSE Some(r.val)
               IN IF PREFIX_SIZE + r.key_size + r.value_size > avail
                    THEN [res |-> "Io", n |-> avail]
                  ELSE IF r.key.c >= 128 \/ r.val.c >= 128
                    THEN [res |-> "FromUtf8",
                          n |-> PREFIX_SIZE + r.key_size + r.value_size]
                  ELSE IF r.key_size # StrLen(r.key)
                          \/ r.value_size # StrLen(r.val)
                          \/ r.crc # GenerateCrc32(r.key_size, r.value_size,
                                                   r.key, value)
                    THEN [res |-> "Panic",
                          n |-> PREFIX_SIZE + r.key_size + r.value_size]
                  ELSE [res |-> "Ok",
                        n |-> PREFIX_SIZE + r.key_size + r.value_size,
                        entry |-> [key |-> r.key, value |-> value,
                                   crc32 |-> r.crc, key_size |-> r.key_size,
                                   value_size |-> r.value_size]]
    IN Decode(Avail(f, pos, limit), ChunkAt(f, pos))

\* ------------------------------------------------------------------- state

VARIABLES
    files,          \* the directory .kvsdata: generation -> contents of <gen>.log
    readers,        \* KvStore.readers: generation -> [pos]
    writer,         \* KvStore.writer: [gen, pos, buf], buf the unflushed chunks
    keydir,         \* KvStore.keydir: key -> [gen, pos, len]
    current_gen,    \* KvStore.current_gen
    uncompacted,    \* KvStore.uncompacted
    last,           \* the last call of open, set or remove: its arguments and result
    shadow,         \* per key, the last successful mutation: Unset, Removed or Set v
    opens,          \* how many times the store was dropped and opened again
    tree,           \* SledKvsEngine: the sled tree as a map key -> value
    incoming,       \* TcpListener::incoming: the connections not yet accepted
    stream,         \* the connection KvsServer::serve is handling, and where
    trace           \* the connections KvsServer::run has finished, in order

vars ==
    <<files, readers, writer, keydir, current_gen, uncompacted, last, shadow,
      opens, tree, incoming, stream, trace>>

\* A store used directly: no second engine beside it and no server.
outside == <<tree, incoming, stream, trace>>

\* The engine and its directory as one value.
Engine ==
    [files |-> files, readers |-> readers, writer |-> writer,
     keydir |-> keydir, current_gen |-> current_gen,
     uncompacted |-> uncompacted]

\* f with x mapped to v, x added to the domain when missing.
Put(f, x, v) == [y \in DOMAIN f \cup {x} |-> IF y = x THEN v ELSE f[y]]

\* f without the arguments in S.
Drop(f, S) == [y \in DOMAIN f \ S |-> f[y]]

\* EntryPos::from((gen, start..end))
EntryPos(gen, start, end) == [gen |-> gen, pos |-> start, len |-> end - start]

\* The len of the entry of key in keydir kd, 0 when it has none: what
\* `if let Some(old_entry) = ... { uncompacted += old_entry.len }` adds.
OldLen(kd, key) == IF key \in DOMAIN kd THEN kd[key].len ELSE 0

\* ----------------------------------------------------------------- writer

\* BufWriterWithPos::write (through write_all): the bytes go to the buffer
\* and pos advances by their number.
WriteAll(w, chunks) ==
    [w EXCEPT !.buf = w.buf \o chunks, !.pos = w.pos + FileLen(chunks)]

\* flush on a file opened without append: the buffered bytes land at the
\* start of the file, over what is there.  The fault C20 must detect.
FlushFilesAtStart(fs, w) ==
    [fs EXCEPT ![w.gen] = w.buf \o SubSeq(@, Len(w.buf) + 1, Len(@))]

\* BufWriterWithPos::flush: the buffered bytes reach the end of the file
\* (the file is opened with append).
FlushFiles(fs, w) == [fs EXCEPT ![w.gen] = fs[w.gen] \o w.buf]

FlushWriter(w) == [w EXCEPT !.buf = <<>>]

\* entry::to_writer
ToWriter(w, entry) == WriteAll(w, <<AsDurableBytes(entry)>>)

\* new_log_file without readers.insert: the fault C10 must detect.
NewLogFileNoReader(e, gen) ==
    [files |-> IF gen \in DOMAIN e.files THEN e.files
               ELSE Put(e.files, gen, <<>>),
     readers |-> e.readers,
     writer |-> [gen |-> gen, pos |-> 0, buf |-> <<>>]]

\* new_log_file: create <gen>.log when missing, open it for append (the
\* position of a freshly opened file is 0), and register a reader for it.
NewLogFile(e, gen) ==
    [files |-> IF gen \in DOMAIN e.files THEN e.files
               ELSE Put(e.files, gen, <<>>),
     readers |-> Put(e.readers, gen, [pos |-> 0]),
     writer |-> [gen |-> gen, pos |-> 0, buf |-> <<>>]]

\* ---------------------------------------------------------------- recovery

\* sorted_gen_list without gen_list.sort_unstable(): the generations in the
\* order read_dir lists them, here descending.  The fault C21 must detect.
RECURSIVE SortedGenListUnsorted(_)
SortedGenListUnsorted(G) ==
    IF G = {} THEN <<>>
    ELSE LET Cons(m) == <<m>> \o SortedGenListUnsorted(G \ {m})
         IN Cons(CHOOSE x \in G : \A y \in G : x >= y)

\* sorted_gen_list: the generations of the directory, ascending.
RECURSIVE SortedGenList(_)
SortedGenList(G) ==
    IF G = {} THEN <<>>
    ELSE LET Cons(m) == <<m>> \o SortedGenList(G \ {m})
         IN Cons(CHOOSE x \in G : \A y \in G : x <= y)

\* load: replay the records of file f of generation gen from offset pos into
\* the keydir kd.  Returns [res, keydir, uncompacted, pos].
RECURSIVE Load(_, _, _, _, _)
Load(gen, f, pos, kd, unc) ==
    LET Sizes(i) == IF i # 0 /\ f[i].kind = "rec"
                      THEN f[i].key_size + f[i].value_size
                    ELSE IF i # 0 /\ f[i].kind = "cut"
                      THEN f[i].rec.key_size + f[i].rec.value_size
                    ELSE 0
        Apply(r, new_pos) ==
          IF r.res # "Ok"
            THEN [res |-> r.res, keydir |-> kd, uncompacted |-> unc,
                  pos |-> pos]
          ELSE IF r.entry.value # None
            THEN Load(gen, f, new_pos,
                      Put(kd, r.entry.key, EntryPos(gen, pos, new_pos)),
                      unc + OldLen(kd, r.entry.key))
          ELSE Load(gen, f, new_pos,
                    Drop(kd, {r.entry.key}),
                    unc + OldLen(kd, r.entry.key) + (new_pos - pos))
        Step(sizes) ==
          Apply(FromReader(f, pos, PREFIX_SIZE + sizes),
                pos + PREFIX_SIZE + sizes)
        Loop(file_len) ==
          IF pos >= file_len
            THEN [res |-> "Ok", keydir |-> kd, uncompacted |-> unc,
                  pos |-> pos]
          ELSE IF file_len - pos < PREFIX_SIZE
            THEN [res |-> "Io", keydir |-> kd, uncompacted |-> unc,
                  pos |-> pos]
          ELSE Step(Sizes(ChunkAt(f, pos)))
    IN Loop(FileLen(f))

\* The loop of open over gen_list: load every generation, register its
\* reader.  acc is [res, keydir, readers, uncompacted].
RECURSIVE LoadAll(_, _, _)
LoadAll(fs, gen_list, acc) ==
    LET Add(gen, l) ==
          LoadAll(fs, Tail(gen_list),
                  [res |-> l.res, keydir |-> l.keydir,
                   readers |-> Put(acc.readers, gen, [pos |-> l.pos]),
                   uncompacted |-> acc.uncompacted + l.uncompacted])
    IN IF gen_list = <<>> \/ acc.res # "Ok" THEN acc
       ELSE Add(Head(gen_list),
                Load(Head(gen_list), fs[Head(gen_list)], 0, acc.keydir, 0))

\* KvStore::open on the directory fs.  Returns [res, e]: e the new engine
\* (and the directory as open leaves it) when res is "Ok".
Open(fs) ==
    LET Make(l, gen, n) ==
          [res |-> "Ok",
           e |-> [files |-> n.files, readers |-> n.readers,
                  writer |-> n.writer, keydir |-> l.keydir,
                  current_gen |-> gen, uncompacted |-> l.uncompacted]]
        Finish(l, gen) ==
          IF l.res # "Ok" THEN [res |-> l.res]
          ELSE Make(l, gen,
                    NewLogFile([files |-> fs, readers |-> l.readers], gen))
        Scan(gen_list) ==
          Finish(LoadAll(fs, gen_list,
                         [res |-> "Ok", keydir |-> <<>>, readers |-> <<>>,
                          uncompacted |-> 0]),
                 (IF gen_list = <<>> THEN 0 ELSE gen_list[Len(gen_list)]) + 1)
    IN Scan(SortedGenList(DOMAIN fs))

\* ------------------------------------------------------------------ engine

\* get without reader.seek: the record is read from where the reader
\* stands.  The fault C31 must detect.
GetNoSeek(e, key) ==
    LET Read(entry_pos, from, r) ==
          [res |-> r.res,
           value |-> IF r.res = "Ok" THEN r.entry.value ELSE None,
           readers |-> [e.readers EXCEPT ![entry_pos.gen].pos = from + r.n]]
        Take(entry_pos, from) ==
          Read(entry_pos, from,
               FromReader(e.files[entry_pos.gen], from, entry_pos.len))
    IN IF key \notin DOMAIN e.keydir
         THEN [res |-> "Ok", value |-> None, readers |-> e.readers]
       ELSE IF e.keydir[key].gen \notin DOMAIN e.readers
         THEN [res |-> "Panic", value |-> None, readers |-> e.readers]
       ELSE Take(e.keydir[key], e.readers[e.keydir[key].gen].pos)

\* KvStore::get.  Returns [res, value, readers]: "Panic" when the keydir
\* names a generation without reader (the expect) or the crc assert fails.
Get(e, key) ==
    LET Read(entry_pos, r) ==
          [res |-> r.res,
           value |-> IF r.res = "Ok" THEN r.entry.value ELSE None,
           readers |-> [e.readers EXCEPT
                          ![entry_pos.gen].pos = entry_pos.pos + r.n]]
        Seek(entry_pos) ==
          IF entry_pos.gen \notin DOMAIN e.readers
            THEN [res |-> "Panic", value |-> None, readers |-> e.readers]
          ELSE Read(entry_pos,
                    FromReader(e.files[entry_pos.gen], entry_pos.pos,
                               entry_pos.len))
    IN IF key \notin DOMAIN e.keydir
         THEN [res |-> "Ok", value |-> None, readers |-> e.readers]
       ELSE Seek(e.keydir[key])

\* The bytes io::copy moves from offset pos of file f through take(len):
\* the chunks of that byte range when it starts and ends on chunk
\* boundaries, else one raw chunk of as many bytes as the range holds.
CopyRange(f, pos, len) ==
    LET Cut(end, i, J) ==
          IF end <= pos THEN <<>>
          ELSE IF i # 0 /\ J # {}
            THEN SubSeq(f, i, CHOOSE j \in J : TRUE)
          ELSE <<[kind |-> "raw", size |-> end - pos]>>
        Ends(end) ==
          Cut(end, ChunkAt(f, pos),
              {j \in 1..Len(f) : Offset(f, j) + Size(f[j]) = end})
    IN Ends(pos + Avail(f, pos, len))

\* The keys of a keydir in the order BTreeMap iterates them.
RECURSIVE KeyOrder(_)
KeyOrder(K) ==
    IF K = {} THEN <<>>
    ELSE LET Cons(m) == <<m>> \o KeyOrder(K \ {m})
         IN Cons(CHOOSE x \in K : \A y \in K \ {x} : StrLess(x, y))

\* The copy loop of compact without the seek to entry_pos.pos (it copies
\* from wherever the reader stands): the fault C7 must detect.
CompactEntryNoSeek(fs, c, key, compaction_gen) ==
    LET Move(entry_pos, from, bytes, len) ==
          [res |-> "Ok",
           readers |-> [c.readers EXCEPT ![entry_pos.gen].pos = from + len],
           keydir |-> [c.keydir EXCEPT
                         ![key] = EntryPos(compaction_gen, c.new_pos,
                                           c.new_pos + len)],
           cw |-> WriteAll(c.cw, bytes),
           new_pos |-> c.new_pos + len]
        Copy(entry_pos, from, bytes) ==
          Move(entry_pos, from, bytes, FileLen(bytes))
        Take(entry_pos, from) ==
          Copy(entry_pos, from,
               CopyRange(fs[entry_pos.gen], from, entry_pos.len))
        Find(entry_pos) ==
          IF entry_pos.gen \notin DOMAIN c.readers
            THEN [c EXCEPT !.res = "Panic"]
          ELSE Take(entry_pos, c.readers[entry_pos.gen].pos)
    IN Find(c.keydir[key])

\* One iteration of the copy loop of compact (keydir.values_mut()): seek
\* the entry's reader unless it is already there, copy entry_pos.len bytes
\* to the compaction writer, repoint the entry.  c is [res, readers,
\* keydir, cw, new_pos].
CompactEntry(fs, c, key, compaction_gen) ==
    LET Move(entry_pos, from, bytes, len) ==
          [res |-> "Ok",
           readers |-> [c.readers EXCEPT ![entry_pos.gen].pos = from + len],
           keydir |-> [c.keydir EXCEPT
                         ![key] = EntryPos(compaction_gen, c.new_pos,
                                           c.new_pos + len)],
           cw |-> WriteAll(c.cw, bytes),
           new_pos |-> c.new_pos + len]
        Copy(entry_pos, from, bytes) ==
          Move(entry_pos, from, bytes, FileLen(bytes))
        Take(entry_pos, from) ==
          Copy(entry_pos, from,
               CopyRange(fs[entry_pos.gen], from, entry_pos.len))
        Seek(entry_pos, reader) ==
          Take(entry_pos,
               IF reader.pos # entry_pos.pos THEN entry_pos.pos
               ELSE reader.pos)
        Find(entry_pos) ==
          IF entry_pos.gen \notin DOMAIN c.readers
            THEN [c EXCEPT !.res = "Panic"]
          ELSE Seek(entry_pos, c.readers[entry_pos.gen])
    IN Find(c.keydir[key])

RECURSIVE CompactLoop(_, _, _, _)
CompactLoop(fs, c, keys, compaction_gen) ==
    IF keys = <<>> \/ c.res # "Ok" THEN c
    ELSE CompactLoop(fs, CompactEntry(fs, c, Head(keys), compaction_gen),
                     Tail(keys), compaction_gen)

\* The stale generations taken below the old current_gen instead of below
\* compaction_gen: the fault C8 must detect.
StaleGensBelowOld(rs, compaction_gen) ==
    {gen \in DOMAIN rs : gen < compaction_gen - 1}

\* The generations compact retires: the readers below compaction_gen.
StaleGens(rs, compaction_gen) == {gen \in DOMAIN rs : gen < compaction_gen}

\* KvStore::compact.  Returns [res, e].
Compact(e) ==
    LET compaction_gen == e.current_gen + 1
        gen == e.current_gen + 2
        Retire(n1, c, flushed, stale_gens) ==
          [res |-> c.res,
           e |-> [files |-> Drop(flushed, stale_gens),
                  readers |-> Drop(c.readers, stale_gens),
                  writer |-> n1.writer,
                  keydir |-> c.keydir,
                  current_gen |-> gen,
                  uncompacted |-> 0]]
        Finish(n1, n2, c) ==
          Retire(n1, c, FlushFiles(n2.files, c.cw),
                 StaleGens(c.readers, compaction_gen))
        Copy(n1, n2) ==
          Finish(n1, n2,
                 CompactLoop(n2.files,
                             [res |-> "Ok", readers |-> n2.readers,
                              keydir |-> e.keydir, cw |-> n2.writer,
                              new_pos |-> 0],
                             KeyOrder(DOMAIN e.keydir), compaction_gen))
        Second(n1) == Copy(n1, NewLogFile(n1, compaction_gen))
    \* self.writer = self.new_log_file(self.current_gen)?: the old writer
    \* is dropped, which flushes what it still buffers.
    IN Second(NewLogFile([e EXCEPT !.files = FlushFiles(e.files, e.writer)],
                         gen))

\* KvStore::set up to the threshold test: write the record, flush, insert
\* the entry, count the bytes of the entry it replaces.
SetWrite(e, key, value) ==
    LET Insert(pos, w) ==
          [e EXCEPT
             !.files = FlushFiles(e.files, w),
             !.writer = FlushWriter(w),
             !.keydir = Put(e.keydir, key,
                            EntryPos(e.current_gen, pos, w.pos)),
             !.uncompacted = e.uncompacted + OldLen(e.keydir, key)]
    IN Insert(e.writer.pos, ToWriter(e.writer, EntrySet(key, value)))

\* The threshold test of set.
NeedsCompaction(e) == e.uncompacted > COMPACTION_THRESHOLD

\* KvStore::set.  Returns [res, e, compacted, before]: before is the engine
\* as compact found it (the engine itself when compact did not run).
Set(e, key, value) ==
    LET Compacted(w, c) ==
          [res |-> c.res, e |-> c.e, compacted |-> TRUE, before |-> w]
        Then(w) ==
          IF NeedsCompaction(w) THEN Compacted(w, Compact(w))
          ELSE [res |-> "Ok", e |-> w, compacted |-> FALSE, before |-> w]
    IN Then(SetWrite(e, key, value))

\* remove without keydir.remove: the fault C3 must detect.
RemoveKeepingEntry(e, key) ==
    LET Delete(w) ==
          [res |-> "Ok",
           e |-> [e EXCEPT
                    !.files = FlushFiles(e.files, w),
                    !.writer = FlushWriter(w),
                    !.uncompacted = e.uncompacted + e.keydir[key].len]]
    IN IF key \in DOMAIN e.keydir
         THEN Delete(ToWriter(e.writer, EntryRemove(key)))
       ELSE [res |-> "KeyNotFound", e |-> e]

\* remove that appends the tombstone before it looks the key up: the fault
\* C4 must detect.
RemoveWritingFirst(e, key) ==
    LET Delete(w) ==
          [res |-> IF key \in DOMAIN e.keydir THEN "Ok" ELSE "KeyNotFound",
           e |-> [e EXCEPT
                    !.files = FlushFiles(e.files, w),
                    !.writer = FlushWriter(w),
                    !.keydir = Drop(e.keydir, {key}),
                    !.uncompacted = e.uncompacted + OldLen(e.keydir, key)]]
    IN Delete(ToWriter(e.writer, EntryRemove(key)))

\* KvStore::remove.  Returns [res, e].
Remove(e, key) ==
    LET Delete(w) ==
          [res |-> "Ok",
           e |-> [e EXCEPT
                    !.files = FlushFiles(e.files, w),
                    !.writer = FlushWriter(w),
                    !.keydir = Drop(e.keydir, {key}),
                    !.uncompacted = e.uncompacted + e.keydir[key].len]]
    IN IF key \in DOMAIN e.keydir
         THEN Delete(ToWriter(e.writer, EntryRemove(key)))
       ELSE [res |-> "KeyNotFound", e |-> e]

\* ------------------------------------------------------- bytes on the wire

\* The bytes of a TCP stream are a sequence of runs, no run empty and no two
\* neighbours of the same byte.  Keys and values that cross the wire are
\* strings of at most one run.

\* s followed by t.
Cat(s, t) ==
    IF s = <<>> THEN t
    ELSE IF t = <<>> THEN s
    ELSE IF s[Len(s)].c = t[1].c
      THEN SubSeq(s, 1, Len(s) - 1)
           \o <<Str(t[1].c, s[Len(s)].n + t[1].n)>> \o Tail(t)
    ELSE s \o t

\* The bytes of a string literal, given as its character codes.
RECURSIVE Text(_)
Text(chars) ==
    IF chars = <<>> THEN <<>>
    ELSE Cat(<<Str(Head(chars), 1)>>, Text(Tail(chars)))

\* String::as_bytes
StrBytes(s) == IF StrLen(s) = 0 THEN <<>> ELSE <<s>>

\* String::from_utf8 of a line of at most one run.
LineStr(line) == IF line = <<>> THEN EmptyStr ELSE line[1]

\* Whether the bytes are UTF-8: the bytes below 128 are, a run of one
\* byte from 128 on is not.
Utf8(bytes) == \A i \in 1..Len(bytes) : bytes[i].c < 128

CRLF == Text(<<13, 10>>)

\* The errors: KvsError with the text its Display prints.
KeyNotFound ==
    [kind |-> "KeyNotFound",
     msg |-> Text(<<75, 101, 121, 32, 110, 111, 116, 32, 102, 111, 117, 110,
                    100>>)]

\* KvsError::String(msg)
StringError(msg) == [kind |-> "String", msg |-> msg]

\* KvsError::Io of the error read_line returns for bytes that are not UTF-8.
InvalidData ==
    [kind |-> "Io",
     msg |-> Text(<<115, 116, 114, 101, 97, 109, 32, 100, 105, 100, 32, 110,
                    111, 116, 32, 99, 111, 110, 116, 97, 105, 110, 32, 118,
                    97, 108, 105, 100, 32, 85, 84, 70, 45, 56>>)]

NoError == [kind |-> "None", msg |-> <<>>]

\* format!("{}", e)
Display(e) == e.msg

\* lines().next() that leaves the CR before the LF in the line: the fault
\* C28 must detect.
LinesNextKeepCR(input) ==
    LET Line(line, rest) ==
          [some |-> TRUE, ok |-> Utf8(line), line |-> line, rest |-> rest]
        Split(i) ==
          IF i = 0 THEN Line(input, <<>>)
          ELSE Line(SubSeq(input, 1, i - 1),
                    (IF input[i].n > 1 THEN <<Str(10, input[i].n - 1)>>
                     ELSE <<>>) \o SubSeq(input, i + 1, Len(input)))
        First(S) == IF S = {} THEN 0 ELSE CHOOSE i \in S : \A j \in S : i <= j
    IN IF input = <<>>
         THEN [some |-> FALSE, ok |-> TRUE, line |-> <<>>, rest |-> <<>>]
       ELSE Split(First({i \in 1..Len(input) : input[i].c = 10}))

\* reader.lines().next(): the bytes up to the first LF, without that LF and
\* without a CR right before it; the bytes left when there is no LF; None
\* at the end of the input.  Returns [some, ok, line, rest].
LinesNext(input) ==
    LET Strip(line) ==
          IF line # <<>> /\ line[Len(line)].c = 13
            THEN IF line[Len(line)].n = 1 THEN SubSeq(line, 1, Len(line) - 1)
                 ELSE [line EXCEPT ![Len(line)].n = @ - 1]
          ELSE line
        Line(line, rest) ==
          [some |-> TRUE, ok |-> Utf8(line), line |-> line, rest |-> rest]
        Split(i) ==
          IF i = 0 THEN Line(input, <<>>)
          ELSE Line(Strip(SubSeq(input, 1, i - 1)),
                    (IF input[i].n > 1 THEN <<Str(10, input[i].n - 1)>>
                     ELSE <<>>) \o SubSeq(input, i + 1, Len(input)))
        First(S) == IF S = {} THEN 0 ELSE CHOOSE i \in S : \A j \in S : i <= j
    IN IF input = <<>>
         THEN [some |-> FALSE, ok |-> TRUE, line |-> <<>>, rest |-> <<>>]
       ELSE Split(First({i \in 1..Len(input) : input[i].c = 10}))

\* The Request enum; value is the empty string for Get and Remove.
RequestGet(key) == [op |-> "get", key |-> key, value |-> EmptyStr]

RequestSet(key, value) == [op |-> "set", key |-> key, value |-> value]

RequestRemove(key) == [op |-> "remove", key |-> key, value |-> EmptyStr]

NoRequest == [op |-> "none", key |-> EmptyStr, value |-> EmptyStr]

\* The engine has not been called: no Result yet.
NoResult == [res |-> "None", value |-> None]

\* Request::from_reader.  Returns [err, req, rest]: err is NoError and req
\* the request, or err the error and req NoRequest; rest is the input the
\* reader has not consumed.
RequestFromReader(input) ==
    LET Ok(req, rest) == [err |-> NoError, req |-> req, rest |-> rest]
        Err(e, rest) == [err |-> e, req |-> NoRequest, rest |-> rest]
        Malformed(chars, rest) == Err(StringError(Text(chars)), rest)
        GetLine(key) ==
          IF ~key.some
            THEN Malformed(<<77, 97, 108, 102, 111, 114, 109, 101, 100, 32,
                             103, 101, 116, 32, 114, 101, 113, 117, 101, 115,
                             116>>, key.rest)
          ELSE IF ~key.ok THEN Err(InvalidData, key.rest)
          ELSE Ok(RequestGet(LineStr(key.line)), key.rest)
        SetLine(key, value) ==
          IF ~key.some \/ ~value.some
            THEN Malformed(<<77, 97, 108, 102, 111, 114, 109, 101, 100, 32,
                             115, 101, 116, 32, 114, 101, 113, 117, 101, 115,
                             116>>, value.rest)
          ELSE IF ~key.ok \/ ~value.ok THEN Err(InvalidData, value.rest)
          ELSE Ok(RequestSet(LineStr(key.line), LineStr(value.line)),
                  value.rest)
        SetLines(key) == SetLine(key, LinesNext(key.rest))
        RemoveLine(key) ==
          IF ~key.some
            THEN Malformed(<<77, 97, 108, 102, 111, 114, 109, 101, 100, 32,
                             114, 101, 109, 111, 118, 101, 32, 114, 101, 113,
                             117, 101, 115, 116>>, key.rest)
          ELSE IF ~key.ok THEN Err(InvalidData, key.rest)
          ELSE Ok(RequestRemove(LineStr(key.line)), key.rest)
        Match(req) ==
          IF ~req.some
            THEN Malformed(<<77, 97, 108, 102, 111, 114, 109, 101, 100, 32,
                             114, 101, 113, 117, 101, 115, 116>>, req.rest)
          ELSE IF ~req.ok THEN Err(InvalidData, req.rest)
          ELSE IF req.line = Text(<<63>>) THEN GetLine(LinesNext(req.rest))
          ELSE IF req.line = Text(<<43>>) THEN SetLines(LinesNext(req.rest))
          ELSE IF req.line = Text(<<45>>) THEN RemoveLine(LinesNext(req.rest))
          ELSE Malformed(<<73, 108, 108, 101, 103, 97, 108, 32, 115, 101,
                           114, 118, 101, 114, 32, 99, 111, 109, 109, 97,
                           110, 100>>, req.rest)
    IN Match(LinesNext(input))

\* ----------------------------------------------------------------- actions

\* The largest generation of the set G, 0 when G is empty.
MaxGenOf(G) == IF G = {} THEN 0 ELSE CHOOSE x \in G : \A y \in G : y <= x

\* The number of chunks in the directory.
RECURSIVE TotalChunks(_)
TotalChunks(fs) ==
    IF DOMAIN fs = {} THEN 0
    ELSE LET Rest(g) == Len(fs[g]) + TotalChunks(Drop(fs, {g}))
         IN Rest(CHOOSE x \in DOMAIN fs : TRUE)

EmptyDir == <<>>

Unset == [st |-> "Unset", v |-> EmptyStr]

Removed == [st |-> "Removed", v |-> EmptyStr]

WasSet(v) == [st |-> "Set", v |-> v]

\* What get returns for every key: [res, value].
Reads(e) ==
    LET Result(g) == [res |-> g.res, value |-> g.value]
    IN [k \in Keys |-> Result(Get(e, k))]

NoReads == [k \in Keys |-> [res |-> "Ok", value |-> None]]

\* The record of a call that ran no compaction: the call, its arguments and
\* result, the history of its key before it, and current_gen before it.
Call(op, key, value, res, prior) ==
    [op |-> op, key |-> key, value |-> value, res |-> res,
     prior |-> prior, compacted |-> FALSE, old_gen |-> current_gen,
     pre_keys |-> {}, pre_reads |-> NoReads]

Install(e) ==
    /\ files' = e.files
    /\ readers' = e.readers
    /\ writer' = e.writer
    /\ keydir' = e.keydir
    /\ current_gen' = e.current_gen
    /\ uncompacted' = e.uncompacted

\* No connection is being served: run waits in listener.incoming().
NoStream ==
    [pc |-> "accept", id |-> 0, input |-> <<>>, output |-> <<>>,
     req |-> NoRequest, result |-> NoResult, err |-> NoError]

\* KvStore::open on an empty directory.
Init ==
    \E o \in {Open(EmptyDir)} :
       /\ files = o.e.files
       /\ readers = o.e.readers
       /\ writer = o.e.writer
       /\ keydir = o.e.keydir
       /\ current_gen = o.e.current_gen
       /\ uncompacted = o.e.uncompacted
       /\ last = [op |-> "open", key |-> EmptyStr, value |-> EmptyStr,
                  res |-> "Ok", prior |-> Unset,
                  compacted |-> FALSE, old_gen |-> 0,
                  pre_keys |-> {}, pre_reads |-> NoReads]
       /\ shadow = [k \in AllKeys |-> Unset]
       /\ opens = 0
       /\ tree = <<>>
       /\ incoming = <<>>
       /\ stream = NoStream
       /\ trace = <<>>

\* store.set(key, value): what the call does to the store.
SetStep(key, value) ==
    /\ TotalChunks(files) < MaxRecs
    /\ \E r \in {Set(Engine, key, value)} :
       /\ r.compacted => current_gen + 2 <= MaxGen
       /\ Install(r.e)
       /\ last' = [Call("set", key, value, r.res, shadow[key]) EXCEPT
                     !.compacted = r.compacted,
                     !.pre_keys = IF r.compacted THEN DOMAIN r.before.keydir
                                  ELSE {},
                     !.pre_reads = IF r.compacted THEN Reads(r.before)
                                   ELSE NoReads]
       /\ shadow' = IF r.res = "Ok" THEN [shadow EXCEPT ![key] = WasSet(value)]
                    ELSE shadow
       /\ UNCHANGED opens

\* store.set(key, value)
DoSet(key, value) == SetStep(key, value) /\ UNCHANGED outside

\* store.get(key): its result is Get(Engine, key), a function of the state;
\* the call itself moves the reader it used.
GetStep(key) ==
    \E r \in {Get(Engine, key)} :
       /\ readers' = r.readers
       /\ UNCHANGED <<files, writer, keydir, current_gen, uncompacted, last,
                      shadow, opens>>

DoGet(key) == GetStep(key) /\ UNCHANGED outside

\* store.remove(key): what the call does to the store.
RemoveStep(key) ==
    /\ key \in DOMAIN keydir => TotalChunks(files) < MaxRecs
    /\ \E r \in {Remove(Engine, key)} :
       /\ Install(r.e)
       /\ last' = Call("remove", key, EmptyStr, r.res, shadow[key])
       /\ shadow' = IF r.res = "Ok" THEN [shadow EXCEPT ![key] = Removed]
                    ELSE shadow
       /\ UNCHANGED opens

\* store.remove(key)
DoRemove(key) == RemoveStep(key) /\ UNCHANGED outside

\* Dropping the store (the writer flushes what it buffers) and opening the
\* same directory again.
Reopen ==
    /\ current_gen < MaxGen
    /\ opens < MaxOpens
    /\ \E o \in {Open(FlushFiles(files, writer))} :
       /\ o.res = "Ok"
       /\ Install(o.e)
       /\ last' = Call("open", EmptyStr, EmptyStr, o.res, Unset)
       /\ opens' = opens + 1
       /\ UNCHANGED <<shadow, outside>>

Next ==
    \/ \E key \in Keys, value \in Values : DoSet(key, value)
    \/ \E key \in Keys : DoGet(key)
    \/ \E key \in Keys : DoRemove(key)
    \/ Reopen

Spec == Init /\ [][Next]_vars

\* ---------------------------------------------------- stored bytes altered

\* A record of a generation file with bytes altered behind the store's
\* back: a byte of the stored crc ("crc"), a byte of the value, or of the
\* key when the value is empty, changed to another ASCII byte ("payload") or
\* to the byte 255, which no UTF-8 string holds ("utf8").
Alter(ch, how) ==
    IF how = "crc" THEN [ch EXCEPT !.crc.key_size = @ + 1]
    ELSE IF StrLen(ch.val) > 0
      THEN [ch EXCEPT !.val.c = IF how = "utf8" THEN 255 ELSE @ + 1]
    ELSE [ch EXCEPT !.key.c = IF how = "utf8" THEN 255 ELSE @ + 1]

\* The stored crc of a record is not the crc of its sizes, key and value.
CrcDiffers(ch) ==
    /\ ch.kind = "rec"
    /\ ch.crc # GenerateCrc32(ch.key_size, ch.value_size, ch.key,
                              IF ch.value_size = 0 THEN None ELSE Some(ch.val))

\* The places [gen, i] of the records of the directory whose crc differs.
Altered(fs) ==
    {p \in UNION {{[gen |-> g, i |-> i] : i \in 1..Len(fs[g])} :
                     g \in DOMAIN fs} : CrcDiffers(fs[p.gen][p.i])}

\* The store is there to be called: the process has not panicked and the
\* last open returned an engine.
Running == last.res # "Panic" /\ (last.op = "open" => last.res = "Ok")

\* Bytes of record i of <gen>.log are altered on disk.
Corrupt(gen, i, how) ==
    /\ Running
    /\ Cardinality(Altered(files)) < MaxFaults
    /\ files[gen][i].kind = "rec"
    /\ files' = [files EXCEPT ![gen][i] = Alter(@, how)]
    /\ UNCHANGED <<readers, writer, keydir, current_gen, uncompacted, last,
                   shadow, opens, outside>>

\* store.get(key) with its result recorded.
GetCall(key) ==
    /\ Running
    /\ \E r \in {Get(Engine, key)} :
       /\ readers' = r.readers
       /\ last' = Call("get", key, EmptyStr, r.res, shadow[key])
       /\ UNCHANGED <<files, writer, keydir, current_gen, uncompacted, shadow,
                      opens, outside>>

\* Dropping the store and KvStore::open on the same directory, whatever
\* open returns: an engine, an error (no engine, and no new file: load
\* runs before new_log_file) or a panic.
OpenCall ==
    /\ Running
    /\ current_gen < MaxGen
    /\ opens < MaxOpens
    /\ \E o \in {Open(FlushFiles(files, writer))} :
       /\ IF o.res = "Ok" THEN Install(o.e)
          ELSE /\ files' = FlushFiles(files, writer)
               /\ UNCHANGED <<readers, writer, keydir, current_gen,
                              uncompacted>>
       /\ last' = Call("open", EmptyStr, EmptyStr, o.res, Unset)
       /\ opens' = opens + 1
       /\ UNCHANGED <<shadow, outside>>

\* The calls are those of a client that keeps to the contract (no empty
\* value), so that what follows an altered byte is told apart from what
\* follows set(k, "").
FaultNext ==
    \/ \E key \in Keys, value \in Values \ {EmptyStr} :
          Running /\ DoSet(key, value)
    \/ \E key \in Keys : GetCall(key)
    \/ \E key \in Keys : Running /\ DoRemove(key)
    \/ OpenCall
    \/ \E gen \in DOMAIN files :
          \E i \in 1..Len(files[gen]), how \in {"crc", "payload", "utf8"} :
             Corrupt(gen, i, how)

FaultSpec == Init /\ [][FaultNext]_vars

\* ------------------------------------------------------------------ server

\* KvsClient::get, set, remove: the bytes the client writes and flushes.
ClientGet(key) == Cat(Text(<<63>>), Cat(CRLF, Cat(StrBytes(key), CRLF)))

ClientSet(key, value) ==
    Cat(Text(<<43>>),
        Cat(CRLF, Cat(StrBytes(key),
                      Cat(CRLF, Cat(StrBytes(value), CRLF)))))

ClientRemove(key) == Cat(Text(<<45>>), Cat(CRLF, Cat(StrBytes(key), CRLF)))

\* What a connection sends before its peer closes it: the requests of
\* KvsClient for the key "a", a get followed by a remove on one connection,
\* a get with bare LF line ends, and requests that are not well formed: an
\* unknown opcode "*", a set without its value line, a get without its key
\* line, nothing at all.
Inputs ==
    {ClientGet(Str(97, 1)), ClientSet(Str(97, 1), Str(120, 1)),
     ClientSet(Str(97, 1), EmptyStr), ClientRemove(Str(97, 1)),
     Cat(ClientGet(Str(97, 1)), ClientRemove(Str(97, 1))),
     Text(<<63, 10, 97, 10>>),
     Cat(Text(<<42>>), CRLF),
     Cat(Text(<<43>>), Cat(CRLF, Cat(Text(<<97>>), CRLF))),
     Cat(Text(<<63>>), CRLF),
     <<>>}

\* The error value of an engine result that is not Ok.  The text of an
\* I/O or UTF-8 error is the library's and is left empty.
ErrorOf(res) ==
    IF res = "KeyNotFound" THEN KeyNotFound ELSE [kind |-> res, msg |-> <<>>]

\* format!("!{}\r\n", e)
ErrorResponse(e) == Cat(Text(<<33>>), Cat(Display(e), CRLF))

\* Ok(None) of get answered with an empty line instead of the sentinel: the
\* fault C14 must detect.
ServeResponseNoSentinel(req, result) ==
    IF result.res # "Ok" THEN ErrorResponse(ErrorOf(result.res))
    ELSE IF req.op = "get"
      THEN IF result.value # None THEN Cat(StrBytes(result.value[1]), CRLF)
           ELSE CRLF
    ELSE Text(<<79, 75>>)

\* The match of serve on the engine's result: the bytes it writes.
ServeResponse(req, result) ==
    IF result.res # "Ok" THEN ErrorResponse(ErrorOf(result.res))
    ELSE IF req.op = "get"
      THEN IF result.value # None THEN Cat(StrBytes(result.value[1]), CRLF)
           ELSE Cat(Text(<<45, 49>>), CRLF)
    ELSE Text(<<79, 75>>)

\* serve reading a further request from the connection after it has
\* answered one: the fault C15 must detect.
AfterResponseKeepAlive(st) == IF st.input # <<>> THEN "read" ELSE "return"

\* Where serve goes after the response is written: Ok(()), it returns.
AfterResponse(st) == "return"

\* What the trace keeps of the connection st at the event ev; rest is the
\* input serve has not read.
Event(ev, st) ==
    [ev |-> ev, id |-> st.id, req |-> st.req, result |-> st.result,
     output |-> st.output, err |-> st.err, rest |-> st.input]

\* A client connects and sends input; its connection waits to be accepted.
Connect(input) ==
    /\ stream.id + Len(incoming) < MaxConns
    /\ incoming' = Append(incoming, input)
    /\ UNCHANGED <<files, readers, writer, keydir, current_gen, uncompacted,
                   last, shadow, opens, tree, stream, trace>>

\* run: listener.incoming() yields the next connection, in the order the
\* connections were made; serve starts on it.
Accept ==
    /\ stream.pc = "accept"
    /\ incoming # <<>>
    /\ stream' = [NoStream EXCEPT !.pc = "read", !.id = stream.id + 1,
                                  !.input = Head(incoming)]
    /\ incoming' = Tail(incoming)
    /\ UNCHANGED <<files, readers, writer, keydir, current_gen, uncompacted,
                   last, shadow, opens, tree, trace>>

\* serve: Request::from_reader(&mut reader)?
ReadRequest ==
    /\ stream.pc = "read"
    /\ \E p \in {RequestFromReader(stream.input)} :
          stream' = [stream EXCEPT
                       !.pc = IF p.err = NoError THEN "exec" ELSE "return",
                       !.input = p.rest, !.req = p.req, !.err = p.err]
    /\ UNCHANGED <<files, readers, writer, keydir, current_gen, uncompacted,
                   last, shadow, opens, tree, incoming, trace>>

\* self.engine.get, set or remove as serve calls it.  Returns [res, value,
\* e]: value is what get returned, e the engine after the call.
EngineCall(e, req) ==
    LET OfGet(g) ==
          [res |-> g.res, value |-> g.value,
           e |-> [e EXCEPT !.readers = g.readers]]
        OfOther(r) == [res |-> r.res, value |-> None, e |-> r.e]
    IN IF req.op = "get" THEN OfGet(Get(e, req.key))
       ELSE IF req.op = "set" THEN OfOther(Set(e, req.key, req.value))
       ELSE OfOther(Remove(e, req.key))

\* serve: the call of the engine.  A panic of the engine ends the server.
Execute ==
    /\ stream.pc = "exec"
    /\ \E r \in {EngineCall(Engine, stream.req)} :
          /\ Install(r.e)
          /\ \E st \in {[stream EXCEPT
                           !.pc = IF r.res = "Panic" THEN "panic" ELSE "write",
                           !.result = [res |-> r.res, value |-> r.value]]} :
                /\ stream' = st
                /\ trace' = Append(trace, Event("exec", st))
    /\ UNCHANGED <<last, shadow, opens, tree, incoming>>

\* serve: writer.write_all of the response.
Respond ==
    /\ stream.pc = "write"
    /\ \E out \in {ServeResponse(stream.req, stream.result)} :
          \E st \in {[stream EXCEPT !.output = out]} :
             stream' = [st EXCEPT !.pc = AfterResponse(st)]
    /\ UNCHANGED <<files, readers, writer, keydir, current_gen, uncompacted,
                   last, shadow, opens, tree, incoming, trace>>

\* serve returns: its BufWriter is dropped, which sends what it holds, the
\* connection closes, run logs the error if there is one and goes on to
\* the next connection.
Return ==
    /\ stream.pc = "return"
    /\ trace' = Append(trace, Event("return", stream))
    /\ stream' = [NoStream EXCEPT !.id = stream.id]
    /\ UNCHANGED <<files, readers, writer, keydir, current_gen, uncompacted,
                   last, shadow, opens, tree, incoming>>

ServerNext ==
    \/ \E input \in Inputs : Connect(input)
    \/ Accept
    \/ ReadRequest
    \/ Execute
    \/ Respond
    \/ Return

\* A KvsServer over a KvStore opened on an empty directory.
ServerSpec == Init /\ [][ServerNext]_vars

\* ------------------------------------------------------------------ client

\* response::from_reader on the bytes the server sent before it closed the
\* connection.  Returns [res, value, err]: res "Ok" with the Option, or
\* "Err" with the error.
ResponseFromReader(output) ==
    LET Ok(value) == [res |-> "Ok", value |-> value, err |-> NoError]
        Err(e) == [res |-> "Err", value |-> None, err |-> e]
        Match(resp) ==
          IF ~resp.some
            THEN Err(StringError(Text(<<77, 97, 108, 102, 111, 114, 109, 101,
                                        100, 32, 114, 101, 115, 112, 111, 110,
                                        115, 101>>)))
          ELSE IF ~resp.ok THEN Err(InvalidData)
          ELSE IF resp.line # <<>> /\ resp.line[1].c = 33
            THEN Err(StringError(resp.line))
          ELSE IF resp.line = Text(<<45, 49>>) THEN Ok(None)
          ELSE Ok(Some(LineStr(resp.line)))
    IN Match(LinesNext(output))

\* What KvsClient::get, set or remove returns for the bytes received: get
\* the result of response::from_reader, set and remove Ok(()) for its Ok.
ClientResult(op, output) ==
    IF op = "get" THEN ResponseFromReader(output)
    ELSE [ResponseFromReader(output) EXCEPT !.value = None]

\* The requests of KvsClient for the key "a" and the values "x" and "!".
ClientInputs ==
    {ClientGet(Str(97, 1)), ClientRemove(Str(97, 1)),
     ClientSet(Str(97, 1), Str(120, 1)), ClientSet(Str(97, 1), Str(33, 1))}

\* The connections whose client has returned.
Received == {trace[n].id : n \in {m \in 1..Len(trace) : trace[m].ev = "client"}}

\* The client of a connection the server has closed reads the response and
\* returns: the trace gets what it returned.
Receive(n) ==
    /\ trace[n].ev = "return"
    /\ trace[n].id \notin Received
    /\ \E r \in {ClientResult(trace[n].req.op, trace[n].output)} :
          trace' = Append(trace,
                          [trace[n] EXCEPT
                             !.ev = "client",
                             !.result = [res |-> r.res, value |-> r.value],
                             !.err = r.err])
    /\ UNCHANGED <<files, readers, writer, keydir, current_gen, uncompacted,
                   last, shadow, opens, tree, incoming, stream>>

ClientNext ==
    \/ \E input \in ClientInputs : Connect(input)
    \/ Accept
    \/ ReadRequest
    \/ Execute
    \/ Respond
    \/ Return
    \/ \E n \in 1..Len(trace) : Receive(n)

\* KvsClient calls on a KvsServer over a KvStore opened on an empty
\* directory.
ClientSpec == Init /\ [][ClientNext]_vars

\* ------------------------------------------------------------ sled engine

\* SledKvsEngine over a tree modelled as a map from key to value bytes.
\* Each operation returns [res, value, tree].

\* SledKvsEngine::set: tree.set(key, value.into_bytes()), flush.
SledSet(t, key, value) ==
    [res |-> "Ok", value |-> None, tree |-> Put(t, key, StrBytes(value))]

\* SledKvsEngine::get: tree.get(key), the bytes through String::from_utf8.
SledGet(t, key) ==
    IF key \notin DOMAIN t THEN [res |-> "Ok", value |-> None, tree |-> t]
    ELSE IF ~Utf8(t[key]) THEN [res |-> "FromUtf8", value |-> None, tree |-> t]
    ELSE [res |-> "Ok", value |-> Some(LineStr(t[key])), tree |-> t]

\* SledKvsEngine::remove: tree.del(key)?.ok_or(KeyNotFound)?, flush.
SledRemove(t, key) ==
    IF key \in DOMAIN t
      THEN [res |-> "Ok", value |-> None, tree |-> Drop(t, {key})]
    ELSE [res |-> "KeyNotFound", value |-> None, tree |-> t]

\* The same call made on a KvStore and on a SledKvsEngine, both started
\* empty.
BothSet(key, value) ==
    /\ SetStep(key, value)
    /\ tree' = SledSet(tree, key, value).tree
    /\ UNCHANGED <<incoming, stream, trace>>

BothGet(key) ==
    /\ GetStep(key)
    /\ tree' = SledGet(tree, key).tree
    /\ UNCHANGED <<incoming, stream, trace>>

BothRemove(key) ==
    /\ RemoveStep(key)
    /\ tree' = SledRemove(tree, key).tree
    /\ UNCHANGED <<incoming, stream, trace>>

BothNext ==
    \/ \E key \in Keys, value \in Values : BothSet(key, value)
    \/ \E key \in Keys : BothGet(key)
    \/ \E key \in Keys : BothRemove(key)

BothSpec == Init /\ [][BothNext]_vars

\* --------------------------------------------------------------- empty key

\* The store called with the key "a" and with the empty key.
EmptyKeyNext ==
    \/ \E key \in {Str(97, 1), EmptyStr}, value \in Values \ {EmptyStr} :
          DoSet(key, value)
    \/ \E key \in {Str(97, 1), EmptyStr} : DoGet(key)
    \/ \E key \in {Str(97, 1), EmptyStr} : DoRemove(key)
    \/ Reopen

EmptyKeySpec == Init /\ [][EmptyKeyNext]_vars

\* ------------------------------------------------------- process stopped

\* The process that owns the store stops (a crash, a kill, a power cut) in
\* the middle of a call, and the directory is opened again.  What the dead
\* process held in memory stays in the variables, unused, until open
\* installs the new engine.

\* The process runs: it has not stopped, not panicked, and has an engine.
Alive == last.op # "crash" /\ Running

\* The first n bytes of the encoding of entry: a write that did not finish.
CutRecord(entry, n) ==
    [kind |-> "cut", size |-> n, rec |-> AsDurableBytes(entry)]

\* The numbers of bytes a write of size bytes may have got to the file
\* before it finished: some of the prefix, the prefix, all but one byte.
CutSizes(size) ==
    {n \in {PREFIX_SIZE - 1, PREFIX_SIZE, size - 1} : 0 < n /\ n < size}

\* set(key, value), or remove(key) when value is None, stops in to_writer
\* or flush with n bytes of the record in the file of the current
\* generation.
CrashInWrite(key, value, n) ==
    /\ Alive
    /\ TotalChunks(files) < MaxRecs
    /\ value = None => key \in DOMAIN keydir
    /\ n \in CutSizes(Size(AsDurableBytes(EntryNew(key, value))))
    /\ files' = [files EXCEPT
                   ![current_gen] = Append(@, CutRecord(EntryNew(key, value),
                                                        n))]
    /\ last' = [Call("crash", key,
                     IF value = None THEN EmptyStr ELSE value[1],
                     "Write", shadow[key]) EXCEPT
                  !.pre_keys = DOMAIN keydir,
                  !.pre_reads = Reads(Engine)]
    /\ UNCHANGED <<readers, writer, keydir, current_gen, uncompacted, shadow,
                   opens, outside>>

\* The directory when compact, run by the set whose result is r, has flushed
\* the compaction file and removed the files of the stale generations in
\* deleted, and no other: the files compact leaves, and the stale files not
\* yet removed as compact found them.
CrashFiles(r, deleted) ==
    [g \in DOMAIN r.e.files
             \cup (StaleGens(r.before.readers, r.before.current_gen + 1)
                     \ deleted) |->
        IF g \in DOMAIN r.e.files THEN r.e.files[g] ELSE r.before.files[g]]

\* set(key, value) runs compact and stops in its loop over stale_gens (a
\* HashMap's keys, in any order) after it removed the files in deleted.
CrashInCompact(key, value, deleted) ==
    /\ Alive
    /\ TotalChunks(files) < MaxRecs
    /\ \E r \in {Set(Engine, key, value)} :
          /\ r.compacted
          /\ r.res = "Ok"
          /\ current_gen + 2 <= MaxGen
          /\ deleted \subseteq StaleGens(r.before.readers,
                                         r.before.current_gen + 1)
          /\ files' = CrashFiles(r, deleted)
          /\ last' = [Call("crash", key, value, "Compact", shadow[key]) EXCEPT
                        !.compacted = TRUE,
                        !.pre_keys = DOMAIN r.before.keydir,
                        !.pre_reads = Reads(r.before)]
    /\ UNCHANGED <<readers, writer, keydir, current_gen, uncompacted, shadow,
                   opens, outside>>

\* KvStore::open on the directory the stopped process left, whatever open
\* returns.  The record of the call keeps what the stopped process read.
Recover ==
    /\ last.op = "crash"
    /\ MaxGenOf(DOMAIN files) < MaxGen
    /\ \E o \in {Open(files)} :
       /\ IF o.res = "Ok" THEN Install(o.e)
          ELSE UNCHANGED <<files, readers, writer, keydir, current_gen,
                           uncompacted>>
       /\ last' = [Call("open", last.key, last.value, o.res, last.prior) EXCEPT
                     !.pre_keys = last.pre_keys,
                     !.pre_reads = last.pre_reads]
       /\ UNCHANGED <<shadow, opens, outside>>

\* The calls are those of a client that keeps to the contract (no empty
\* value).
CrashNext ==
    \/ \E key \in Keys, value \in Values \ {EmptyStr} :
          Alive /\ DoSet(key, value)
    \/ \E key \in Keys : Alive /\ DoGet(key)
    \/ \E key \in Keys : Alive /\ DoRemove(key)
    \/ Alive /\ Reopen
    \/ \E key \in Keys, value \in {Some(v) : v \in Values \ {EmptyStr}}
                                    \cup {None} :
          \E n \in CutSizes(Size(AsDurableBytes(EntryNew(key, value)))) :
             CrashInWrite(key, value, n)
    \/ \E key \in Keys, value \in Values \ {EmptyStr} :
          \E deleted \in SUBSET (DOMAIN files) :
             CrashInCompact(key, value, deleted)
    \/ Recover

CrashSpec == Init /\ [][CrashNext]_vars

\* ------------------------------------------------------------ codec alone

\* The record codec on its own: an entry is built and written by to_writer
\* to an empty buffer (generation file 1 stands for it), other bytes may
\* follow it, and from_reader reads the buffer from its start.

CodecKeys == {Str(c, n) : c \in {97, 98}, n \in 0..MaxStrLen}

\* The values of Entry::new: Some(v), and None.
CodecValues ==
    {Some(Str(c, n)) : c \in {120, 121}, n \in 0..MaxStrLen} \cup {None}

\* What may follow the encoding in the buffer: nothing, or another record.
CodecTails == {<<>>, <<AsDurableBytes(EntrySet(Str(97, 1), Str(120, 1)))>>}

\* Entry::set(key, v) or Entry::remove(key), and to_writer of the entry.
Encode(key, value, tail) ==
    /\ last.op # "to_writer"
    /\ \E w \in {ToWriter([gen |-> 1, pos |-> 0, buf |-> <<>>],
                          EntryNew(key, value))} :
          files' = [files EXCEPT ![1] = w.buf \o tail]
    /\ readers' = [readers EXCEPT ![1].pos = 0]
    /\ last' = [entry |-> EntryNew(key, value)]
                 @@ Call("to_writer", key, EmptyStr, "Ok", Unset)
    /\ UNCHANGED <<writer, keydir, current_gen, uncompacted, shadow, opens,
                   outside>>

\* from_reader on a reader over the buffer.  The record of the call keeps
\* the entry that was written, the entry read (when the result is Ok) and
\* the number of bytes the reader has moved.
Decode ==
    /\ last.op = "to_writer"
    /\ \E r \in {FromReader(files[1], 0, FileLen(files[1]))} :
          /\ readers' = [readers EXCEPT ![1].pos = r.n]
          /\ last' = [entry |-> last.entry,
                      read |-> IF r.res = "Ok" THEN <<r.entry>> ELSE <<>>]
                       @@ Call("from_reader", last.key, EmptyStr, r.res,
                               Unset)
    /\ UNCHANGED <<files, writer, keydir, current_gen, uncompacted, shadow,
                   opens, outside>>

CodecNext ==
    \/ \E key \in CodecKeys, value \in CodecValues, tail \in CodecTails :
          Encode(key, value, tail)
    \/ Decode

CodecSpec == Init /\ [][CodecNext]_vars

\* ----------------------------------------------------------- parser alone

\* Request::from_reader on its own, on a reader over given bytes.

\* What a line of the input holds: nothing, an opcode "?", "+" or "-", the
\* character "*", the key or value "a", a byte that is not UTF-8.
ParseLines ==
    {<<>>, Text(<<63>>), Text(<<43>>), Text(<<45>>), Text(<<42>>),
     Text(<<97>>), <<Str(255, 1)>>}

\* The bytes of the lines ls, each ended by eol, the last one only when
\* closed is true.
RECURSIVE Join(_, _, _)
Join(ls, eol, closed) ==
    IF ls = <<>> THEN <<>>
    ELSE IF Len(ls) = 1 THEN Cat(ls[1], IF closed THEN eol ELSE <<>>)
    ELSE Cat(ls[1], Cat(eol, Join(Tail(ls), eol, closed)))

\* BufReader::new over the bytes of the lines ls; serve is about to read.
\* A last line that is not ended holds at least one byte.
Feed(ls, eol, closed) ==
    /\ stream.pc = "accept"
    /\ stream.id = 0
    /\ closed \/ (ls # <<>> /\ ls[Len(ls)] # <<>>)
    /\ stream' = [lines |-> ls, eol |-> eol, closed |-> closed]
                   @@ [NoStream EXCEPT !.pc = "read", !.id = 1,
                                       !.input = Join(ls, eol, closed)]
    /\ UNCHANGED <<files, readers, writer, keydir, current_gen, uncompacted,
                   last, shadow, opens, tree, incoming, trace>>

\* One input is fed, and read once.
ParseNext ==
    \/ /\ stream.id = 0
       /\ \E n \in 0..MaxLines :
             \E ls \in [1..n -> ParseLines], eol \in {CRLF, Text(<<10>>)},
                closed \in BOOLEAN :
                   Feed(ls, eol, closed)
    \/ ReadRequest

ParseSpec == Init /\ [][ParseNext]_vars

\* -------------------------------------------------------------- I/O errors

\* set in which one I/O operation returns an error: the `?` after it makes
\* set return that error with the engine as it is at that point.  `at`
\* names the operation:
\*   "flush"  self.writer.flush() in set, before any byte reached the file:
\*            the record stays in the BufWriter, whose next flush (that of
\*            a later call, or of the drop of the store) writes it;
\*   "create" self.new_log_file(self.current_gen) in compact, the open of
\*            the new file: current_gen is raised, the writer is the old
\*            one, the keydir holds the entry set has inserted.
\* Returns [res, e, failed]: failed is FALSE when set does not reach the
\* operation.
SetFailing(e, key, value, at) ==
    LET AtCreate(w) ==
          [res |-> "Io", e |-> [w EXCEPT !.current_gen = @ + 2],
           failed |-> NeedsCompaction(w)]
    IN IF at = "flush"
         THEN [res |-> "Io",
               e |-> [e EXCEPT !.writer = ToWriter(e.writer,
                                                   EntrySet(key, value))],
               failed |-> TRUE]
       ELSE AtCreate(SetWrite(e, key, value))

\* store.set(key, value) that returns an I/O error.  A BufWriter that holds
\* a record is not given a second one.
SetError(key, value, at) ==
    /\ Running
    /\ writer.buf = <<>>
    /\ TotalChunks(files) < MaxRecs
    /\ current_gen + 2 <= MaxGen
    /\ \E r \in {SetFailing(Engine, key, value, at)} :
          /\ r.failed
          /\ Install(r.e)
          /\ last' = Call("set", key, value, r.res, shadow[key])
    /\ UNCHANGED <<shadow, opens, outside>>

\* The calls are those of a client that keeps to the contract (no empty
\* value).
IoErrorNext ==
    \/ \E key \in Keys, value \in Values \ {EmptyStr} :
          Running /\ DoSet(key, value)
    \/ \E key \in Keys : GetCall(key)
    \/ \E key \in Keys : Running /\ DoRemove(key)
    \/ Running /\ Reopen
    \/ \E key \in Keys, value \in Values \ {EmptyStr},
          at \in {"flush", "create"} :
             SetError(key, value, at)

IoErrorSpec == Init /\ [][IoErrorNext]_vars


\* ------------------------------------------------------ one open store

\* The calls of one store that stays open: set, get and remove in any
\* order.  What a later open reads is the bytes these calls leave on disk.
CallsNext ==
    \/ \E key \in Keys, value \in Values : DoSet(key, value)
    \/ \E key \in Keys : DoGet(key)
    \/ \E key \in Keys : DoRemove(key)

CallsSpec == Init /\ [][CallsNext]_vars


\* -------------------------------------------- single-file store (kv.rs)

\* src/src/kv.rs keeps one log, .wal.0, of lines: each line is the RON text
\* of a Command, and the keydir maps a key to the byte offset of its last
\* Set line.  A file is its bytes, a sequence of runs as on the wire.

\* The position from which set compacts: `if pos >= 100000`.
KV_COMPACTION_POS == 100000

LF == Text(<<10>>)

\* The number of bytes.
RECURSIVE BytesLen(_)
BytesLen(bytes) ==
    IF bytes = <<>> THEN 0 ELSE bytes[1].n + BytesLen(Tail(bytes))

\* The bytes from offset pos on: what a reader sees after
\* seek(SeekFrom::Start(pos)).
RECURSIVE SkipBytes(_, _)
SkipBytes(bytes, pos) ==
    IF pos = 0 \/ bytes = <<>> THEN bytes
    ELSE IF bytes[1].n <= pos THEN SkipBytes(Tail(bytes), pos - bytes[1].n)
    ELSE <<Str(bytes[1].c, bytes[1].n - pos)>> \o Tail(bytes)

\* Command::Set(key, value) and Command::Rm(key).
CommandSet(key, value) == [cmd |-> "Set", key |-> key, value |-> value]

CommandRm(key) == [cmd |-> "Rm", key |-> key, value |-> EmptyStr]

\* The characters ron writes with a backslash inside a string, and the
\* character it writes after the backslash: \" \\ \n.
Escapes == {34, 92, 10}

EscapeChar(c) == IF c = 10 THEN 110 ELSE c

UnescapeChar(c) == IF c = 110 THEN 10 ELSE c

\* The bytes of a string between its quotes.
RECURSIVE Escaped(_)
Escaped(s) ==
    IF StrLen(s) = 0 THEN <<>>
    ELSE IF s.c \notin Escapes THEN <<s>>
    ELSE Cat(Text(<<92, EscapeChar(s.c)>>), Escaped(Str(s.c, s.n - 1)))

\* "..."
Quoted(s) == Cat(Text(<<34>>), Cat(Escaped(s), Text(<<34>>)))

\* ron::ser::to_string(&cmd): Set("key","value") or Rm("key").
RonToString(cmd) ==
    IF cmd.cmd = "Set"
      THEN Cat(Text(<<83, 101, 116, 40>>),
               Cat(Quoted(cmd.key),
                   Cat(Text(<<44>>), Cat(Quoted(cmd.value), Text(<<41>>)))))
    ELSE Cat(Text(<<82, 109, 40>>), Cat(Quoted(cmd.key), Text(<<41>>)))

\* The parser's step: the bytes after the literal chars, when the bytes
\* start with it.  Returns [ok, rest].
RECURSIVE Expect(_, _)
Expect(bytes, chars) ==
    IF chars = <<>> THEN [ok |-> TRUE, rest |-> bytes]
    ELSE IF bytes = <<>> \/ bytes[1].c # Head(chars)
      THEN [ok |-> FALSE, rest |-> bytes]
    ELSE Expect(SkipBytes(bytes, 1), Tail(chars))

\* The escaped characters of a string, read one \c at a time: s is the
\* string read so far.  Returns [ok, str, rest].
RECURSIVE ParseEscaped(_, _)
ParseEscaped(bytes, s) ==
    LET Next1(c, rest) ==
          IF c \notin Escapes \/ (StrLen(s) > 0 /\ s.c # c)
            THEN [ok |-> FALSE, str |-> s, rest |-> rest]
          ELSE ParseEscaped(rest, Str(c, s.n + 1))
        After(rest) ==
          IF rest = <<>> THEN [ok |-> FALSE, str |-> s, rest |-> rest]
          ELSE Next1(UnescapeChar(rest[1].c), SkipBytes(rest, 1))
    IN IF bytes # <<>> /\ bytes[1].c = 92 THEN After(SkipBytes(bytes, 1))
       ELSE [ok |-> TRUE, str |-> s, rest |-> bytes]

\* A string literal: the opening quote, the characters, the closing quote.
\* Returns [ok, str, rest].
ParseString(bytes) ==
    LET Close(body) ==
          IF ~body.ok THEN body
          ELSE [ok |-> Expect(body.rest, <<34>>).ok, str |-> body.str,
                rest |-> Expect(body.rest, <<34>>).rest]
        Body(rest) ==
          IF rest = <<>> THEN [ok |-> FALSE, str |-> EmptyStr, rest |-> rest]
          ELSE IF rest[1].c = 34
            THEN [ok |-> TRUE, str |-> EmptyStr, rest |-> rest]
          ELSE IF rest[1].c = 92 THEN ParseEscaped(rest, EmptyStr)
          ELSE [ok |-> TRUE, str |-> rest[1], rest |-> Tail(rest)]
        Open1(q) ==
          IF ~q.ok THEN [ok |-> FALSE, str |-> EmptyStr, rest |-> bytes]
          ELSE Close(Body(q.rest))
    IN Open1(Expect(bytes, <<34>>))

\* ron::de::from_str::<Command>(line).  Returns [ok, cmd]; the caller
\* unwraps, so ok FALSE is a panic.
RonFromStr(line) ==
    LET Fail == [ok |-> FALSE, cmd |-> CommandRm(EmptyStr)]
        End(cmd, close) ==
          IF close.ok /\ close.rest = <<>> THEN [ok |-> TRUE, cmd |-> cmd]
          ELSE Fail
        SetValue(key, value) ==
          IF ~value.ok THEN Fail
          ELSE End(CommandSet(key.str, value.str), Expect(value.rest, <<41>>))
        SetComma(key, comma) ==
          IF ~comma.ok THEN Fail ELSE SetValue(key, ParseString(comma.rest))
        SetKey(key) ==
          IF ~key.ok THEN Fail ELSE SetComma(key, Expect(key.rest, <<44>>))
        RmKey(key) ==
          IF ~key.ok THEN Fail
          ELSE End(CommandRm(key.str), Expect(key.rest, <<41>>))
        Variant(set, rm) ==
          IF set.ok THEN SetKey(ParseString(set.rest))
          ELSE IF rm.ok THEN RmKey(ParseString(rm.rest))
          ELSE Fail
    IN Variant(Expect(line, <<83, 101, 116, 40>>),
               Expect(line, <<82, 109, 40>>))


\* The two files of the log directory.
WAL == ".wal.0"

HINT == ".wal.hint"

\* read_line from offset pos: the line there, which the parser reads up to
\* the white space that ends it.
ReadLineAt(bytes, pos) == LinesNext(SkipBytes(bytes, pos)).line

\* The loop of open over log_reader.lines(), from offset pos of the log
\* with keydir kd.  Returns [res, keydir].
RECURSIVE KvLoad(_, _, _)
KvLoad(input, pos, kd) ==
    LET Apply(l, p) ==
          IF ~p.ok THEN [res |-> "Panic", keydir |-> kd]
          ELSE KvLoad(l.rest, pos + BytesLen(l.line) + 1,
                      IF p.cmd.cmd = "Set" THEN Put(kd, p.cmd.key, pos)
                      ELSE Drop(kd, {p.cmd.key}))
        Line(l) ==
          IF ~l.some THEN [res |-> "Ok", keydir |-> kd]
          ELSE IF ~l.ok THEN [res |-> "Io", keydir |-> kd]
          ELSE Apply(l, RonFromStr(l.line))
    IN Line(LinesNext(input))

\* KvStore::open of kv.rs on the directory dir, a map from file name to
\* bytes.  Returns [res, e]; the store e is [dir, keydir], its log_file
\* the file named .wal.0.
KvOpen(dir) ==
    LET Make(d, l) == [res |-> l.res, e |-> [dir |-> d, keydir |-> l.keydir]]
        Created(d) == Make(d, KvLoad(d[WAL], 0, <<>>))
    IN Created(IF WAL \in DOMAIN dir THEN dir ELSE Put(dir, WAL, <<>>))

\* KvStore::get of kv.rs.  Returns [res, value].
KvGet(e, key) ==
    LET Value(p) ==
          IF ~p.ok THEN [res |-> "Panic", value |-> None]
          ELSE IF p.cmd.cmd = "Set"
            THEN [res |-> "Ok", value |-> Some(p.cmd.value)]
          ELSE [res |-> "UnexpectedCommandType", value |-> None]
    IN IF key \notin DOMAIN e.keydir THEN [res |-> "Ok", value |-> None]
       ELSE Value(RonFromStr(ReadLineAt(e.dir[WAL], e.keydir[key])))

\* writeln!(file, "{}", cmd) after seek(SeekFrom::End(0)).
WriteLn(bytes, cmd) == Cat(bytes, Cat(cmd, LF))

\* One pass of the loop of compact: the line of key is read from the log
\* and, when it is a Set, written again at the end of the hint file.  c is
\* [res, hint, keydir]: the hint file and the new keydir so far.
KvCompactEntry(e, c, key) ==
    LET Written(cmd, hint) ==
          [res |-> "Ok", hint |-> hint,
           keydir |-> Put(c.keydir, key,
                          BytesLen(hint) - (BytesLen(cmd) + 1))]
        Copy(cmd) == Written(cmd, WriteLn(c.hint, cmd))
        Line(p) ==
          IF ~p.ok THEN [c EXCEPT !.res = "Panic"]
          ELSE IF p.cmd.cmd = "Set"
            THEN Copy(RonToString(CommandSet(key, p.cmd.value)))
          ELSE c
    IN Line(RonFromStr(ReadLineAt(e.dir[WAL], e.keydir[key])))

RECURSIVE KvCompactLoop(_, _, _)
KvCompactLoop(e, c, keys) ==
    IF keys = <<>> \/ c.res # "Ok" THEN c
    ELSE KvCompactLoop(e, KvCompactEntry(e, c, Head(keys)), Tail(keys))

\* The hint file as compact opens it: created when missing, and opened as
\* it is, with the bytes it holds, when it exists (create without truncate).
HintOpened(dir) == IF HINT \in DOMAIN dir THEN dir[HINT] ELSE <<>>

\* KvStore::compact of kv.rs; order is the order in which the HashMap
\* hands out its keys.  Returns [res, e].
KvCompact(e, order) ==
    LET Renamed(c) ==
          IF c.res # "Ok"
            THEN [res |-> c.res,
                  e |-> [e EXCEPT !.dir = Put(e.dir, HINT, c.hint)]]
          ELSE [res |-> "Ok",
                e |-> [dir |-> Put(Drop(e.dir, {HINT}), WAL, c.hint),
                       keydir |-> c.keydir]]
    IN Renamed(KvCompactLoop(e, [res |-> "Ok", hint |-> HintOpened(e.dir),
                                 keydir |-> <<>>], order))

\* KvStore::set of kv.rs up to the test of pos: the line is appended and
\* the keydir points at its first byte.  Returns [e, pos].
KvSetWrite(e, key, value) ==
    LET Insert(cmd, log) ==
          [e |-> [dir |-> Put(e.dir, WAL, log),
                  keydir |-> Put(e.keydir, key,
                                 BytesLen(log) - (BytesLen(cmd) + 1))],
           pos |-> BytesLen(log)]
        Line(cmd) == Insert(cmd, WriteLn(e.dir[WAL], cmd))
    IN Line(RonToString(CommandSet(key, value)))

\* KvStore::set of kv.rs.  Returns [res, e, compacted, before]: before is
\* the store as compact found it.
KvSet(e, key, value, order) ==
    LET Compacted(w, c) ==
          [res |-> c.res, e |-> c.e, compacted |-> TRUE, before |-> w.e]
        Then(w) ==
          IF w.pos >= KV_COMPACTION_POS THEN Compacted(w, KvCompact(w.e, order))
          ELSE [res |-> "Ok", e |-> w.e, compacted |-> FALSE, before |-> w.e]
    IN Then(KvSetWrite(e, key, value))

\* KvStore::remove of kv.rs.  Returns [res, e].
KvRemove(e, key) ==
    IF key \in DOMAIN e.keydir
      THEN [res |-> "Ok",
            e |-> [dir |-> Put(e.dir, WAL,
                               WriteLn(e.dir[WAL],
                                       RonToString(CommandRm(key)))),
                   keydir |-> Drop(e.keydir, {key})]]
    ELSE [res |-> "KeyNotFound", e |-> e]

\* The values set in the single-file store: empty, plain, a line feed, and
\* one as long as the position from which set compacts.
KvValues ==
    {EmptyStr, Str(120, 1), Str(10, 1), Str(121, KV_COMPACTION_POS)}

\* The orders in which a HashMap with the keys K can hand them out.
KvOrders(K) ==
    {o \in [1..Cardinality(K) -> K] : \A k \in K : \E i \in DOMAIN o : o[i] = k}

\* The number of lines of a log.
RECURSIVE KvLines(_)
KvLines(bytes) ==
    IF bytes = <<>> THEN 0
    ELSE (IF bytes[1].c = 10 THEN bytes[1].n ELSE 0) + KvLines(Tail(bytes))

\* The store of kv.rs as one value: files is its directory.
KvEngine == [dir |-> files, keydir |-> keydir]

\* What get returns for every key.
KvReads(e) == [k \in Keys |-> KvGet(e, k)]

\* The record of a call of the single-file store.
KvCall(op, key, value, res) ==
    [op |-> op, key |-> key, value |-> value, res |-> res,
     compacted |-> FALSE, pre_keys |-> {}, pre_reads |-> NoReads]

KvInstall(e) ==
    /\ files' = e.dir
    /\ keydir' = e.keydir

\* The variables the single-file store does not have.
kvOutside ==
    <<readers, writer, current_gen, uncompacted, shadow, tree, incoming,
      stream, trace>>

\* KvStore::open of kv.rs on an empty directory.
KvInit ==
    \E o \in {KvOpen(EmptyDir)} :
       /\ files = o.e.dir
       /\ keydir = o.e.keydir
       /\ last = KvCall("open", EmptyStr, EmptyStr, o.res)
       /\ opens = 0
       /\ readers = <<>>
       /\ writer = [gen |-> 0, pos |-> 0, buf |-> <<>>]
       /\ current_gen = 0
       /\ uncompacted = 0
       /\ shadow = [k \in AllKeys |-> Unset]
       /\ tree = <<>>
       /\ incoming = <<>>
       /\ stream = NoStream
       /\ trace = <<>>

\* The process runs: it was not stopped and did not panic.
KvAlive == last.op # "crash" /\ last.res # "Panic"

\* store.set(key, value)
KvDoSet(key, value, order) ==
    /\ KvAlive
    /\ KvLines(files[WAL]) < MaxRecs
    /\ \E r \in {KvSet(KvEngine, key, value, order)} :
       /\ KvInstall(r.e)
       /\ last' = [KvCall("set", key, value, r.res) EXCEPT
                     !.compacted = r.compacted,
                     !.pre_keys = DOMAIN r.before.keydir,
                     !.pre_reads = KvReads(r.before)]
       /\ UNCHANGED <<opens, kvOutside>>

\* store.get(key)
KvDoGet(key) ==
    /\ KvAlive
    /\ \E r \in {KvGet(KvEngine, key)} :
       /\ last' = [KvCall("get", key, EmptyStr, r.res) EXCEPT
                     !.pre_reads = [NoReads EXCEPT ![key] = r]]
       /\ UNCHANGED <<files, keydir, opens, kvOutside>>

\* store.remove(key)
KvDoRemove(key) ==
    /\ KvAlive
    /\ key \in DOMAIN keydir => KvLines(files[WAL]) < MaxRecs
    /\ \E r \in {KvRemove(KvEngine, key)} :
       /\ KvInstall(r.e)
       /\ last' = KvCall("remove", key, EmptyStr, r.res)
       /\ UNCHANGED <<opens, kvOutside>>

\* The process is stopped in compact, run by set(key, value), after n
\* passes of its loop and before the rename: the log has the new line, the
\* hint file the lines written so far.
KvCrashInCompact(key, value, order, n) ==
    /\ KvAlive
    /\ opens < MaxOpens
    /\ KvLines(files[WAL]) < MaxRecs
    /\ \E w \in {KvSetWrite(KvEngine, key, value)} :
       /\ w.pos >= KV_COMPACTION_POS
       /\ n <= Len(order)
       /\ \E c \in {KvCompactLoop(w.e, [res |-> "Ok",
                                        hint |-> HintOpened(w.e.dir),
                                        keydir |-> <<>>],
                                  SubSeq(order, 1, n))} :
          /\ files' = Put(w.e.dir, HINT, c.hint)
          /\ keydir' = <<>>
          /\ last' = KvCall("crash", key, value, "Stopped")
          /\ UNCHANGED <<opens, kvOutside>>

\* The store is dropped, or the stopped process is started again, and the
\* directory is opened.
KvReopen ==
    /\ opens < MaxOpens
    /\ \E o \in {KvOpen(files)} :
       /\ KvInstall(o.e)
       /\ last' = KvCall("open", EmptyStr, EmptyStr, o.res)
       /\ opens' = opens + 1
       /\ UNCHANGED kvOutside

KvNext ==
    \/ \E key \in Keys, value \in KvValues :
          \E order \in KvOrders(DOMAIN keydir \cup {key}) :
             KvDoSet(key, value, order)
    \/ \E key \in Keys : KvDoGet(key)
    \/ \E key \in Keys : KvDoRemove(key)
    \/ \E key \in Keys, value \in KvValues :
          \E order \in KvOrders(DOMAIN keydir \cup {key}) :
             \E n \in 1..Len(order) : KvCrashInCompact(key, value, order, n)
    \/ KvReopen

KvSpec == KvInit /\ [][KvNext]_vars

\* ------------------------------------------------------------------ claims

\* What store.get(k) returns in the current state.
GetNow(k) == Get(Engine, k)

\* The chunk the keydir entry of k points at is exactly the record ch.
PointsAt(k, ch) ==
    /\ k \in DOMAIN keydir
    /\ keydir[k].gen \in DOMAIN files
    /\ \E i \in 1..Len(files[keydir[k].gen]) :
          /\ Offset(files[keydir[k].gen], i) = keydir[k].pos
          /\ files[keydir[k].gen][i] = ch
          /\ Size(ch) = keydir[k].len

\* C1 (round trip): in every state whose last call is a set(k, v) that
\* returned Ok, with or without compaction, get(k) returns Some(v).
C1_RoundTrip ==
    (last.op = "set" /\ last.res = "Ok")
        => /\ GetNow(last.key).res = "Ok"
           /\ GetNow(last.key).value = Some(last.value)

\* C2 (overwrite): when the last call is a successful set(k, v2) and the
\* last successful mutation of k before it was a set(k, v1), get(k) returns
\* Some(v2) and the keydir entry of k points at the record of set(k, v2).
C2_Overwrite ==
    (last.op = "set" /\ last.res = "Ok" /\ last.prior.st = "Set")
        => /\ GetNow(last.key).res = "Ok"
           /\ GetNow(last.key).value = Some(last.value)
           /\ PointsAt(last.key, AsDurableBytes(EntrySet(last.key, last.value)))

\* C3 (remove): a key whose last successful mutation is a remove is not in
\* the keydir and get returns None for it; a remove of such a key (a second
\* remove with no set of the key in between) returns KeyNotFound.
C3_Remove ==
    /\ \A k \in Keys :
          shadow[k].st = "Removed"
              => /\ k \notin DOMAIN keydir
                 /\ GetNow(k).res = "Ok"
                 /\ GetNow(k).value = None
    /\ (last.op = "remove" /\ last.prior.st = "Removed")
          => last.res = "KeyNotFound"

\* A second remove of a key was attempted after a set and a remove of it.
C3_Witness ==
    /\ last.op = "remove"
    /\ last.prior.st = "Removed"
    /\ last.res = "KeyNotFound"
    /\ GetNow(last.key).value = None

\* C4 (remove of an absent key): a step remove(k) for a key that is not in
\* the keydir returns KeyNotFound and leaves the generation files, the
\* writer (no byte written or pending), the readers, keydir, uncompacted
\* and current_gen as they were.
C4_RemoveAbsent ==
    [][\A k \in Keys :
          (k \notin DOMAIN keydir /\ DoRemove(k))
              => /\ last'.res = "KeyNotFound"
                 /\ UNCHANGED <<files, writer, readers, keydir, uncompacted,
                                current_gen>>]_vars

\* A remove of an absent key returned KeyNotFound while the store held data.
C4_Witness ==
    /\ last.op = "remove"
    /\ last.res = "KeyNotFound"
    /\ last.key \notin DOMAIN keydir
    /\ DOMAIN keydir # {}

\* C5 (durability): right after the store is dropped and opened again (any
\* compaction may have run before), every key whose last successful
\* mutation is a set(k, v) reads as Some(v).
C5_Durability ==
    (last.op = "open" /\ opens > 0)
        => \A k \in Keys :
              shadow[k].st = "Set"
                  => /\ GetNow(k).res = "Ok"
                     /\ GetNow(k).value = Some(shadow[k].v)

\* C6 (recovery equivalence): in every state, open on the directory as it
\* is succeeds and builds the keydir the live engine holds: the same keys
\* with the same (gen, pos, len).
C6_RecoveryEquivalence ==
    /\ Open(FlushFiles(files, writer)).res = "Ok"
    /\ Open(FlushFiles(files, writer)).e.keydir = keydir

\* C7 (compaction preserves reads): when the last call is a set that ran
\* compact, the keydir has the keys it had when compact started and get
\* returns for every key what it returned then.
C7_CompactionPreservesReads ==
    (last.op = "set" /\ last.compacted /\ last.res = "Ok")
        => /\ DOMAIN keydir = last.pre_keys
           /\ \A k \in Keys :
                 /\ GetNow(k).res = last.pre_reads[k].res
                 /\ GetNow(k).value = last.pre_reads[k].value

\* A compaction ran with two live keys, one of them the key just set.
C7_Witness ==
    /\ last.op = "set"
    /\ last.compacted
    /\ last.res = "Ok"
    /\ DOMAIN keydir = Keys
    /\ \A k \in Keys : GetNow(k).value # None

\* The sum of len over the entries of keydir kd for the keys in K.
RECURSIVE SumLen(_, _)
SumLen(kd, K) ==
    IF K = {} THEN 0
    ELSE LET Rest(k) == kd[k].len + SumLen(kd, K \ {k})
         IN Rest(CHOOSE k \in K : TRUE)

\* C8 (state after compact): when the last call is a set that ran compact,
\* every keydir entry is in generation old current_gen + 1, the entries
\* tile that file from offset 0 without gap or overlap, the files and the
\* readers are exactly those of generations old current_gen + 1 and old
\* current_gen + 2, the latter is current_gen, and uncompacted is 0.
C8_AfterCompact ==
    (last.op = "set" /\ last.compacted /\ last.res = "Ok")
        => /\ \A k \in DOMAIN keydir : keydir[k].gen = last.old_gen + 1
           /\ \A k \in DOMAIN keydir :
                 keydir[k].pos =
                    SumLen(keydir, {j \in DOMAIN keydir :
                                       keydir[j].pos < keydir[k].pos})
           /\ \A j, k \in DOMAIN keydir :
                 j # k => keydir[j].pos # keydir[k].pos
           /\ last.old_gen + 1 \in DOMAIN files
           /\ FileLen(files[last.old_gen + 1]) = SumLen(keydir, DOMAIN keydir)
           /\ DOMAIN files = {last.old_gen + 1, last.old_gen + 2}
           /\ DOMAIN readers = {last.old_gen + 1, last.old_gen + 2}
           /\ current_gen = last.old_gen + 2
           /\ uncompacted = 0

\* A compaction ran on a store that had been reopened (it retires more
\* than one generation) and left two entries in the compaction file.
C8_Witness ==
    /\ last.op = "set"
    /\ last.compacted
    /\ last.res = "Ok"
    /\ opens > 0
    /\ last.old_gen > 1
    /\ Cardinality(DOMAIN keydir) = 2

\* The chunks of the directory in recovery order (ascending generation,
\* then ascending offset) as [gen, i] pairs.
RECURSIVE Traversal(_, _)
Traversal(fs, gen_list) ==
    IF gen_list = <<>> THEN <<>>
    ELSE [i \in 1..Len(fs[Head(gen_list)]) |-> [gen |-> Head(gen_list), i |-> i]]
         \o Traversal(fs, Tail(gen_list))

\* The places in Traversal of the records of key k.
RecordsOf(k, t) ==
    {n \in 1..Len(t) : /\ files[t[n].gen][t[n].i].kind = "rec"
                       /\ files[t[n].gen][t[n].i].key = k}

\* The keydir agrees with the place p of the newest record of a key.
AgreesWith(k, p) ==
    IF files[p.gen][p.i].value_size # 0
      THEN /\ k \in DOMAIN keydir
           /\ keydir[k] = EntryPos(p.gen, Offset(files[p.gen], p.i),
                                   Offset(files[p.gen], p.i)
                                     + Size(files[p.gen][p.i]))
    ELSE k \notin DOMAIN keydir

\* C9 (keydir agrees with the log): in every state, for every key, when the
\* newest record of the key in recovery order is a set record (value_size
\* is not 0) the keydir entry of the key is that record's (gen, pos, len);
\* when it is a tombstone (value_size is 0) or the key has no record, the
\* key is not in the keydir.
C9_KeydirAgreesWithLog ==
    \A k \in Keys :
        \E t \in {Traversal(files, SortedGenList(DOMAIN files))} :
            IF RecordsOf(k, t) = {} THEN k \notin DOMAIN keydir
            ELSE AgreesWith(k, t[CHOOSE n \in RecordsOf(k, t) :
                                    \A m \in RecordsOf(k, t) : m <= n])

C11_NoEntryAtTombstone ==
    /\ \A k \in DOMAIN keydir :
          /\ \A ch \in {files[keydir[k].gen][i] :
                          i \in {j \in 1..Len(files[keydir[k].gen]) :
                                   Offset(files[keydir[k].gen], j)
                                     = keydir[k].pos}} :
                ch.value_size # 0
          /\ GetNow(k).res = "Ok"
          /\ GetNow(k).value # None
    /\ (last.op = "set" /\ last.value = EmptyStr) => last.res # "Ok"

\* The record the keydir entry of k points at.
EntryRecord(k) ==
    files[keydir[k].gen][ChunkAt(files[keydir[k].gen], keydir[k].pos)]

\* C12 (corruption on read): under FaultSpec, in every state in which the
\* store is running, get of a key whose keydir entry points at a record
\* whose stored crc differs from the crc of its sizes, key and value
\* returns the error CorruptRecord: not a value, not another outcome, and
\* the process does not panic.
C12_CorruptRecordOnGet ==
    Running =>
        \A k \in DOMAIN keydir :
            CrcDiffers(EntryRecord(k)) => GetNow(k).res = "CorruptRecord"

\* C13 (corruption at open): under FaultSpec, every step that opens a
\* directory holding a record that does not decode (its crc differs, or
\* its payload is not UTF-8) returns an error (not an engine, and without
\* a panic), creates no generation file and leaves every file as it was.
C13_OpenAbortsOnCorruption ==
    [][(OpenCall /\ Altered(files) # {})
          => /\ last'.res \in {"Io", "FromUtf8", "CorruptRecord"}
             /\ files' = files]_vars

\* The connections the server has finished: the return events of the trace.
Finished == {n \in 1..Len(trace) : trace[n].ev = "return"}

\* C14 (response per request): under ServerSpec, every finished connection
\* whose request was well formed received exactly the bytes its engine
\* result determines: v CR LF for a get that returned Some(v), "-1" CR LF
\* for a get that returned None, "OK" for a set or remove that returned Ok,
\* "!" message CR LF for an engine error ("!Key not found" CR LF for a
\* remove of an absent key).
C14_ResponsePerRequest ==
    \A n \in Finished :
        trace[n].err = NoError =>
            \E ev \in {trace[n]} :
               /\ ev.req.op \in {"get", "set", "remove"}
               /\ (ev.req.op = "get" /\ ev.result.res = "Ok"
                      /\ ev.result.value # None)
                     => ev.output = StrBytes(ev.result.value[1])
                                      \o <<Str(13, 1), Str(10, 1)>>
               /\ (ev.req.op = "get" /\ ev.result.res = "Ok"
                      /\ ev.result.value = None)
                     => ev.output = <<Str(45, 1), Str(49, 1), Str(13, 1),
                                       Str(10, 1)>>
               /\ (ev.req.op \in {"set", "remove"} /\ ev.result.res = "Ok")
                     => ev.output = <<Str(79, 1), Str(75, 1)>>
               /\ ev.result.res = "KeyNotFound"
                     => ev.output = Text(<<33, 75, 101, 121, 32, 110, 111,
                                           116, 32, 102, 111, 117, 110, 100,
                                           13, 10>>)
               /\ ev.result.res \in {"Ok", "KeyNotFound"}

\* A get answered with the value a set on an earlier connection stored.
C14_Witness ==
    \E n \in Finished :
        /\ trace[n].req.op = "get"
        /\ trace[n].result.value = Some(Str(120, 1))
        /\ trace[n].output = <<Str(120, 1), Str(13, 1), Str(10, 1)>>

\* C15 (one connection at a time): under ServerSpec, the events of the
\* trace are ordered by connection (the connections are numbered in accept
\* order), no connection has more than one engine call, the engine call of
\* a connection precedes its return, and every connection accepted before
\* the one being served has returned: the server reads a connection only
\* after the one before it is finished.
C15_OneAtATime ==
    /\ \A m, n \in 1..Len(trace) : m < n => trace[m].id <= trace[n].id
    /\ \A m, n \in 1..Len(trace) :
          (m < n /\ trace[m].id = trace[n].id)
              => (trace[m].ev = "exec" /\ trace[n].ev = "return")
    /\ \A id \in 1..stream.id :
          (id < stream.id \/ stream.pc = "accept")
              => \E n \in Finished : trace[n].id = id
    /\ \A n \in 1..Len(trace) : trace[n].id \in 1..stream.id

\* Two connections were served, each with one engine call; the first of
\* them had sent a second request, which the server left unread.
C15_Witness ==
    /\ Len(trace) = 4
    /\ trace[1].ev = "exec" /\ trace[2].ev = "return"
    /\ trace[3].ev = "exec" /\ trace[4].ev = "return"
    /\ trace[2].id = 1 /\ trace[4].id = 2
    /\ trace[1].req.op = "get"
    /\ trace[2].rest = ClientRemove(Str(97, 1))
    /\ trace[3].req.op = "set"

\* C16 (per-connection errors): under ServerSpec, every finished connection
\* whose handling failed (Request::from_reader returned an error, or the
\* engine did) received "!" message CR LF, and the server went on: it is
\* serving a later connection or waiting for one.
C16_ErrorsReported ==
    \A n \in Finished :
        (trace[n].err # NoError \/ trace[n].result.res \notin {"Ok", "None"})
            => /\ Len(trace[n].output) >= 3
               /\ trace[n].output[1] = Str(33, 1)
               /\ SubSeq(trace[n].output, Len(trace[n].output) - 1,
                         Len(trace[n].output)) = <<Str(13, 1), Str(10, 1)>>
               /\ stream.pc # "panic"
               /\ (stream.id > trace[n].id \/ stream.pc = "accept")

\* C17 (engine equivalence): under BothSpec, after every sequence of calls
\* made on both engines, each call that can come next returns the same on
\* both: get of every key the same Option, remove of every key the same
\* result, set of every key and value the same result.
C17_EnginesAgree ==
    \A k \in Keys :
        /\ GetNow(k).res = SledGet(tree, k).res
        /\ GetNow(k).value = SledGet(tree, k).value
        /\ Remove(Engine, k).res = SledRemove(tree, k).res
        /\ \A v \in Values :
              TotalChunks(files) < MaxRecs
                  => Set(Engine, k, v).res = SledSet(tree, k, v).res

\* C18 (empty keys are rejected): under EmptyKeySpec, every step set("", v),
\* get("") or remove("") returns an error, and leaves the generation files,
\* the writer (no record written or pending), keydir and uncompacted as
\* they were.
C18_EmptyKeyRejected ==
    [][/\ \A v \in Values :
             DoSet(EmptyStr, v)
                 => /\ last'.res # "Ok"
                    /\ UNCHANGED <<files, writer, keydir, uncompacted>>
       /\ DoGet(EmptyStr)
             => /\ Get(Engine, EmptyStr).res # "Ok"
                /\ UNCHANGED <<files, writer, keydir, uncompacted>>
       /\ DoRemove(EmptyStr)
             => /\ last'.res # "Ok"
                /\ UNCHANGED <<files, writer, keydir, uncompacted>>]_vars

\* The number of bytes of all the generation files together.
RECURSIVE TotalBytes(_)
TotalBytes(fs) ==
    IF DOMAIN fs = {} THEN 0
    ELSE LET Rest(g) == FileLen(fs[g]) + TotalBytes(Drop(fs, {g}))
         IN Rest(CHOOSE x \in DOMAIN fs : TRUE)

\* C19 (compaction shrinks storage): every step set(k, v) that ran compact
\* and returned Ok leaves generation files whose sizes add up to the sum of
\* len over the keydir entries, which is the sum of len over the keydir
\* entries compact started with (the live bytes before compaction); every
\* record left on disk is the record of a keydir entry (no superseded
\* record) and none has value_size 0 (no tombstone).
C19_CompactionShrinks ==
    [][\A k \in Keys, v \in Values :
          (DoSet(k, v) /\ last'.compacted /\ last'.res = "Ok")
              => /\ TotalBytes(files') = SumLen(keydir', DOMAIN keydir')
                 /\ TotalBytes(files')
                      = SumLen(SetWrite(Engine, k, v).keydir,
                               DOMAIN SetWrite(Engine, k, v).keydir)
                 /\ \A g \in DOMAIN files' :
                       \A i \in 1..Len(files'[g]) :
                          /\ files'[g][i].kind = "rec"
                          /\ \E key \in DOMAIN keydir' :
                                keydir'[key]
                                  = EntryPos(g, Offset(files'[g], i),
                                             Offset(files'[g], i)
                                               + Size(files'[g][i]))
                          /\ files'[g][i].value_size # 0]_vars

\* The step appends exactly the record ch to the file of the current
\* generation, flushed, and changes no other file.
AppendsOnly(ch) ==
    /\ DOMAIN files' = DOMAIN files
    /\ current_gen' = current_gen
    /\ files'[current_gen] = Append(files[current_gen], ch)
    /\ \A g \in DOMAIN files \ {current_gen} : files'[g] = files[g]
    /\ writer'.buf = <<>>
    /\ FileLen(files'[current_gen])
         = FileLen(files[current_gen]) + PREFIX_SIZE + ch.key_size
             + ch.value_size

ActiveIsNewest ==
    /\ \A g \in (DOMAIN files \cup DOMAIN readers) \ {current_gen} :
          g < current_gen
    /\ \A k \in DOMAIN keydir : keydir[k].gen <= current_gen
    /\ writer.gen = current_gen
    /\ current_gen \in DOMAIN files

C22_BoundedAfterMutation ==
    (last.op \in {"set", "remove"} /\ last.res = "Ok")
        => uncompacted <= COMPACTION_THRESHOLD

\* C23 (what a mutation adds to uncompacted): every step remove(k) that
\* returned Ok raises uncompacted by the len of the keydir entry of k plus
\* the size of the tombstone it appended, 12 + key_size; every step
\* set(k, v) that returned Ok leaves uncompacted, before the compaction it
\* may trigger, raised by the len of the entry of k it replaced, and
\* unchanged when k had no entry.
C23_UncompactedDelta ==
    [][/\ \A k \in Keys :
             (/\ files' # files /\ last'.op = "remove" /\ last'.res = "Ok"
              /\ last'.key = k)
                 => uncompacted'
                      = uncompacted + keydir[k].len + PREFIX_SIZE + StrLen(k)
       /\ \A k \in Keys, v \in Values :
             (/\ files' # files /\ last'.op = "set" /\ last'.res = "Ok"
              /\ last'.key = k /\ last'.value = v)
                 => /\ Set(Engine, k, v).before.uncompacted
                         = uncompacted + (IF k \in DOMAIN keydir
                                            THEN keydir[k].len ELSE 0)
                    /\ ~last'.compacted
                          => uncompacted' = Set(Engine, k, v).before.uncompacted
      ]_vars

\* C24 (uncompacted is the dead bytes on disk): in every state (the states
\* are those between calls: after open, after each set or remove, after
\* compaction), uncompacted is the number of bytes of all the generation
\* files minus the sum of len over the keydir entries, and open on the
\* directory as it is succeeds and computes the same uncompacted.
C24_DeadBytes ==
    /\ uncompacted = TotalBytes(files) - SumLen(keydir, DOMAIN keydir)
    /\ Open(FlushFiles(files, writer)).res = "Ok"
    /\ Open(FlushFiles(files, writer)).e.uncompacted = uncompacted

\* The directory fs without the records that are cut.
Complete(fs) ==
    [g \in DOMAIN fs |-> SelectSeq(fs[g], LAMBDA ch : ch.kind # "cut")]

\* C25 (a truncated tail is the end of the file): under CrashSpec, every
\* open of a directory in which a generation file ends with a cut record (a
\* process stopped while it wrote it) returns an engine, and the keydir of
\* that engine is the one open builds from the complete records alone.
C25_TruncatedTailIsEof ==
    [][(/\ last.op = "crash" /\ last.res = "Write"
        /\ last'.op = "open"
        /\ \E g \in DOMAIN files :
              files[g] # <<>> /\ files[g][Len(files[g])].kind = "cut")
          => /\ last'.res = "Ok"
             /\ keydir' = Open(Complete(files)).e.keydir]_vars

\* C26 (a stop while compact deletes): under CrashSpec, every open of a
\* directory left by a process that stopped in compact, after the
\* compaction file was flushed and any subset of the stale generation files
\* was removed, returns an engine in which get of every key returns what it
\* returned when compact had finished its copy: the same value, and None
\* for a key that had been removed.
C26_RecoversFromCompactionCrash ==
    [][(/\ last.op = "crash" /\ last.res = "Compact"
        /\ last'.op = "open")
          => /\ last'.res = "Ok"
             /\ \A k \in Keys :
                   /\ Get(Engine, k)'.res = last.pre_reads[k].res
                   /\ Get(Engine, k)'.value = last.pre_reads[k].value]_vars

\* C27 (codec round trip): under CodecSpec, for every entry built by
\* Entry::set(k, v) or Entry::remove(k) and written by to_writer, the
\* encoding has 12 + key_size + value_size bytes, with key_size and
\* value_size the byte lengths of k and v (0 for a remove), and from_reader
\* on it returns Ok, has read exactly those bytes, and returns the key k
\* and the value of the entry: Some(v) for a set, None for a remove.
C27_CodecRoundTrip ==
    /\ last.op \in {"to_writer", "from_reader"}
          => /\ last.entry.key_size = StrLen(last.entry.key)
             /\ last.entry.value_size
                  = (IF last.entry.value = None THEN 0
                     ELSE StrLen(last.entry.value[1]))
             /\ files[1][1] = AsDurableBytes(last.entry)
             /\ Size(files[1][1])
                  = 12 + last.entry.key_size + last.entry.value_size
    /\ last.op = "from_reader"
          => /\ last.res = "Ok"
             /\ readers[1].pos = Size(files[1][1])
             /\ last.read # <<>>
             /\ last.read[1].key = last.entry.key
             /\ last.read[1].value = last.entry.value

\* The bytes of the lines of the fed input from line k on.
LinesFrom(k) ==
    Join(SubSeq(stream.lines, k, Len(stream.lines)), stream.eol,
         stream.closed)

\* Request::from_reader returned an error and no request.
ParseFailed == stream.err # NoError /\ stream.req = NoRequest

\* C28 (request framing): under ParseSpec, when Request::from_reader has
\* read an input made of lines (ended by CR LF or by LF): for the lines
\* "?", key it returned Get{key} and left the input from the third line
\* on; for "+", key, value it returned Set{key, value} and left the input
\* from the fourth line on; for "-", key it returned Remove{key} and left
\* the input from the third line on (key and value being UTF-8); it
\* returned an error and no request when the input was empty, when the
\* first line was anything else, and when the key line or the value line
\* was not there; after another first line it left the input from the
\* second line on.
C28_RequestFraming ==
    stream.pc \in {"exec", "return"} =>
        LET ls == stream.lines
            n == Len(stream.lines)
        IN /\ n = 0 => ParseFailed
           /\ (n >= 1 /\ ls[1] \notin {Text(<<63>>), Text(<<43>>),
                                        Text(<<45>>)})
                 => ParseFailed /\ stream.input = LinesFrom(2)
           /\ (n >= 1 /\ ls[1] \in {Text(<<63>>), Text(<<45>>)})
                 => /\ n = 1 => ParseFailed
                    /\ (n >= 2 /\ Utf8(ls[2]))
                          => /\ stream.err = NoError
                             /\ stream.req
                                  = [op |-> IF ls[1] = Text(<<63>>)
                                              THEN "get" ELSE "remove",
                                     key |-> LineStr(ls[2]),
                                     value |-> EmptyStr]
                    /\ stream.input = LinesFrom(3)
           /\ (n >= 1 /\ ls[1] = Text(<<43>>))
                 => /\ n <= 2 => ParseFailed
                    /\ (n >= 3 /\ Utf8(ls[2]) /\ Utf8(ls[3]))
                          => /\ stream.err = NoError
                             /\ stream.req = [op |-> "set",
                                              key |-> LineStr(ls[2]),
                                              value |-> LineStr(ls[3])]
                    /\ stream.input = LinesFrom(4)

\* A set request with a key and a value that differ was read from lines
\* ended by CR LF, and the line after it was left unread.
C28_Witness ==
    /\ stream.pc = "exec"
    /\ stream.req = [op |-> "set", key |-> Str(97, 1), value |-> Str(63, 1)]
    /\ stream.lines = <<Text(<<43>>), Text(<<97>>), Text(<<63>>),
                        Text(<<45>>)>>
    /\ stream.eol = CRLF
    /\ stream.input = Cat(Text(<<45>>), CRLF)

\* C29 (end-to-end fidelity): under ClientSpec, for every call of KvsClient
\* that has returned, with the result the engine gave to serve on that
\* connection: a get returned Ok(Some(v)) when the engine returned
\* Ok(Some(v)) and Ok(None) when it returned Ok(None), a set or remove
\* returned Ok when the engine returned Ok, and the call returned Err when
\* the engine returned an error; the client returned Err in no other case.
C29_ResultFidelity ==
    \A c \in 1..Len(trace) :
        trace[c].ev = "client" =>
            \E e \in 1..Len(trace) :
               /\ trace[e].ev = "exec"
               /\ trace[e].id = trace[c].id
               /\ IF trace[e].result.res = "Ok"
                    THEN /\ trace[c].result.res = "Ok"
                         /\ trace[c].req.op = "get"
                               => trace[c].result.value
                                    = trace[e].result.value
                  ELSE trace[c].result.res = "Err"

\* C30 (a failed set is not observable): under IoErrorSpec, every step
\* set(k, v) that returned an error leaves get of every key, k included,
\* returning what it returned before the step, and the store dropped and
\* opened again after the step opens and returns the same for every key.
C30_FailedSetNotObservable ==
    [][(/\ last'.op = "set" /\ last'.res = "Io"
        /\ <<writer, keydir, current_gen>> # <<writer', keydir', current_gen'>>)
          => /\ \A k \in Keys :
                   /\ Get(Engine, k)'.res = Get(Engine, k).res
                   /\ Get(Engine, k)'.value = Get(Engine, k).value
             /\ Open(FlushFiles(files', writer')).res = "Ok"
             /\ \A k \in Keys :
                   /\ Get(Open(FlushFiles(files', writer')).e, k).res
                        = Get(Engine, k).res
                   /\ Get(Open(FlushFiles(files', writer')).e, k).value
                        = Get(Engine, k).value]_vars

\* ----------------------------------------------------------------- C31

\* The engine with every reader back at offset 0: the engine as it would be
\* had no get been called since its readers were opened.
Rewound(e) ==
    [e EXCEPT !.readers = [gen \in DOMAIN e.readers |->
                             [e.readers[gen] EXCEPT !.pos = 0]]]

\* Two calls returned the same result and left the same engine, and so
\* the same bytes on disk, reader positions aside.
SameOutcome(a, b) ==
    /\ a.res = b.res
    /\ a.e.files = b.e.files
    /\ a.e.writer = b.e.writer
    /\ a.e.keydir = b.e.keydir
    /\ a.e.current_gen = b.e.current_gen
    /\ a.e.uncompacted = b.e.uncompacted
    /\ DOMAIN a.e.readers = DOMAIN b.e.readers

\* A step of get: a reader moved to the end of the record of a key.
GetMoved ==
    /\ readers' # readers
    /\ \E key \in DOMAIN keydir : readers' = Get(Engine, key).readers

\* Some reader stands where a get left it.
SomeReaderMoved == \E gen \in DOMAIN readers : readers[gen].pos # 0

\* The step was a call of set, or one of remove: last' names the call.
SetCalled == last'.op = "set" /\ files' # files

RemoveCalled == last'.op = "remove" /\ (files' # files \/ last' # last)

\* What the step returned and the engine it left.
Returned == [res |-> last'.res, e |-> Engine']

\* C31: get is read-only.  A step of get changes nothing but the position
\* of the reader it used: keydir, uncompacted, current_gen, the writer and
\* every generation file stay as they were.  And no call depends on where
\* the gets before it left the readers: get returns what it returns with
\* every reader rewound, and a step of set or remove returns the same
\* result and leaves the same engine and the same bytes on disk, reader
\* positions aside, as the same call on the engine with every reader
\* rewound; so get calls inserted anywhere change no result of the other
\* calls and no persisted byte.
C31_GetReadOnly ==
    /\ [](SomeReaderMoved
            => \A key \in Keys :
                  \A a \in {Get(Engine, key)},
                     b \in {Get(Rewound(Engine), key)} :
                     a.res = b.res /\ a.value = b.value)
    /\ [][/\ GetMoved
             => UNCHANGED <<files, writer, keydir, current_gen, uncompacted>>
          /\ SomeReaderMoved /\ SetCalled
             => \A b \in {Set(Rewound(Engine), last'.key, last'.value)} :
                   /\ SameOutcome(Returned, b)
                   /\ last'.compacted = b.compacted
          /\ SomeReaderMoved /\ RemoveCalled
             => SameOutcome(Returned,
                            Remove(Rewound(Engine), last'.key))]_vars

\* A get moved the reader of the active generation and a set then appended
\* to that generation: the reader stands before the new record.
C31_Witness ==
    /\ last.op = "set" /\ last.res = "Ok" /\ ~last.compacted
    /\ current_gen \in DOMAIN readers
    /\ readers[current_gen].pos # 0
    /\ readers[current_gen].pos < FileLen(files[current_gen])

\* ----------------------------------------------------------------- C32

\* The commands of a log, line by line, as from_str reads them.
RECURSIVE KvRecords(_)
KvRecords(input) ==
    LET Line(l) ==
          IF ~l.some THEN <<>>
          ELSE <<RonFromStr(l.line)>> \o KvRecords(l.rest)
    IN Line(LinesNext(input))

\* The log holds exactly one Set record for every key of kd, and no other
\* record.
OneSetPerKey(log, kd) ==
    \E recs \in {KvRecords(log)} :
       /\ Len(recs) = Cardinality(DOMAIN kd)
       /\ \A i \in DOMAIN recs : recs[i].ok /\ recs[i].cmd.cmd = "Set"
       /\ \A k \in DOMAIN kd : \E i \in DOMAIN recs : recs[i].cmd.key = k

\* The step was a set that ran compact, and compact returned Ok.
KvCompacted == last'.op = "set" /\ last'.compacted /\ last'.res = "Ok"

\* C32: compaction of the single-file store preserves the mapping.  After
\* a set whose compact returned Ok the keydir has exactly the keys compact
\* found, get returns for every key what it returned when compact began,
\* .wal.0 holds exactly one Set record per key of the keydir and no Rm
\* record, and opening the directory again yields the same mapping.
C32_KvCompactionPreservesMapping ==
    [][KvCompacted
         => \E e \in {[dir |-> files', keydir |-> keydir']} :
               /\ DOMAIN e.keydir = last'.pre_keys
               /\ KvReads(e) = last'.pre_reads
               /\ OneSetPerKey(e.dir[WAL], e.keydir)
               /\ \E o \in {KvOpen(e.dir)} :
                     o.res = "Ok" /\ KvReads(o.e) = KvReads(e)]_vars

=============================================================================
